---- MODULE Spec2Model ----
(***************************************************************************)
(* MantaTail IRC server: the session core of src/server.py and the         *)
(* command handlers of src/commands.py.                                    *)
(*                                                                         *)
(* Every connection owns a reader thread (CommandReceiver.recv_loop), a    *)
(* writer thread (UserConnection.send_queue_thread) and timers.  The       *)
(* registry (State.connected_users, State.channels) is shared and guarded  *)
(* by State.lock where the code takes it.                                  *)
(***************************************************************************)
EXTENDS Integers, Sequences, FiniteSets, TLC

\* Connections the listener accepts in one run.
Sessions == {"s1", "s2"}

\* Nicknames clients ask for: two spellings that differ only in letter case,
\* and one that is all lower case.
NickArgs == {"Alice", "ALICE", "bob"}

\* Channel names clients ask for.
ChanArgs == {"#foo"}

\* The arguments that start with "#".
HashArgs == {"#foo", "#bar"}

\* The queues of the program are unbounded.  A step appends to a queue only
\* when the queue was empty or holds at most this many frames afterwards.
MaxQueue == 2

\* str.lower() on the names above.
lower(x) ==
    CASE x = "Alice" -> "alice"
      [] x = "ALICE" -> "alice"
      [] x = "LS" -> "ls"
      [] x = "LIST" -> "list"
      [] x = "REQ" -> "req"
      [] x = "END" -> "end"
      [] OTHER -> x

\* The prefix of server-originated frames.
mantatail == <<"mantatail">>

\* server.CAP_LS
CAP_LS == <<"away-notify", "cap-notify">>

\* State.supported_modes, flattened as process_channel_modes flattens it.
supported_modes == {"b", "i", "o"}

\* get_motd_content_from_json: None without motd.json, else its content.
NoMotd == [found |-> FALSE, motd |-> <<>>]
MotdJson == [found |-> TRUE, motd |-> <<"line one", "line two">>]

VARIABLES
    user,             \* UserConnection fields of every session
    connected_users,  \* State.connected_users: lower-case nick -> session
    channels,         \* State.channels: lower-case name -> Channel
    lock,             \* State.lock: the thread holding it, or NoThread
    send_que,         \* UserConnection.send_que
    rpc,              \* position of the reader thread (recv_loop)
    wpc,              \* position of the writer thread (send_queue_thread)
    sock,             \* the socket: "none", "open" or "closed"
    wire,             \* the last frame written to the socket
    grace,            \* the 5 second timer of queue_ping_message is pending
    cleanups,         \* how often the lock-held cleanup of the writer has completed
    recording,        \* what the run keeps: "sentinels", "frames" or "wire"
    motd_content,     \* State.motd_content
    decoded_command,  \* recv_loop: the buffer receive_messages has returned
    command_lines,    \* recv_loop: the lines of the buffer that are dispatched
    current_param,    \* process_channel_modes: the parameter of a flag b
    canonical_mask    \* process_mode_b: the mask generate_ban_mask makes of it

vars == <<user, connected_users, channels, lock, send_que, rpc, wpc, sock, wire, grace,
          cleanups, recording, motd_content, decoded_command, command_lines, current_param, canonical_mask>>

\* No buffer is being split and no ban mask is being generated.
NoInput ==
    /\ decoded_command = <<>>
    /\ command_lines = <<>>
    /\ current_param = <<>>
    /\ canonical_mask = <<>>

NoThread == <<"none">>
Reader(s) == <<"reader", s>>
Writer(s) == <<"writer", s>>

\* Writer positions in which nothing takes frames from the queue any more.
WriterGone == {"cleanup", "cleaned", "closed", "dead"}

\* UserConnection.__init__
NewUser ==
    [nick |-> "*", user_message |-> FALSE, motd_sent |-> FALSE, away |-> "None",
     capneg_in_progress |-> FALSE, pong_received |-> FALSE, cap_list |-> {}]

\* A channel that starts without an operator.
channel_without_operator(channel_name, s) ==
    [name |-> channel_name, users |-> {}, operators |-> {}, ban_list |-> <<>>,
     topic |-> <<>>, modes |-> {"t"}]

\* Channel.__init__: the creator is an operator, nobody is a member yet.
\* ban_list maps a ban mask to the user mask of the session that set it;
\* topic is <<>> for None, else <<topic, author>>.
NewChannel(channel_name, s) ==
    [name |-> channel_name, users |-> {}, operators |-> {s}, ban_list |-> <<>>,
     topic |-> <<>>, modes |-> {"t"}]

NoFrame == [kind |-> "none", arg |-> <<>>, prefix |-> <<>>]

\* The registry and the queues as one value, so that a handler is a function
\* from the value before it to the value after it.
World ==
    [connected_users |-> connected_users, channels |-> channels, user |-> user,
     send_que |-> send_que, raised |-> FALSE, motd_content |-> motd_content]

\* UserConnection.get_user_mask: nick!user_name@host.  A string that is cut at
\* "!", "@" or "*" is a sequence of its pieces, each of these characters being
\* a piece of its own.
get_user_mask(w, s) ==
    <<w.user[s].nick, "!", IF w.user[s].user_message THEN "usr" ELSE "None", "@", s>>

\* Whether a put on the queue of s is kept.  A queue whose writer has taken
\* the disconnect sentinel is read by nobody and is not recorded further.
\* A run that records "sentinels" keeps only the sentinels: they are all that
\* the control flow of the writer depends on.
kept(s, kind) ==
    /\ wpc[s] \notin WriterGone
    /\ recording # "sentinels" \/ kind = "None"

\* send_que.put((message, prefix))
put(w, s, kind, arg, prefix) ==
    IF ~kept(s, kind)
    THEN w
    ELSE [w EXCEPT !.send_que[s] = Append(@, [kind |-> kind, arg |-> arg, prefix |-> prefix])]

\* A "finally" that puts nothing.
lose_sentinel(w, s, reason) == w

\* The disconnect sentinel (None, disconnect_reason).
put_sentinel(w, s, reason) == put(w, s, "None", <<>>, <<reason>>)

\* One put per session, whatever the set.
put_everyone(w, S, kind, arg, prefix) ==
    [w EXCEPT !.send_que =
        [s \in Sessions |->
            IF kept(s, kind)
            THEN Append(@[s], [kind |-> kind, arg |-> arg, prefix |-> prefix])
            ELSE @[s]]]

\* One put per session of a set (a for loop over a set of users).
put_all(w, S, kind, arg, prefix) ==
    [w EXCEPT !.send_que =
        [s \in Sessions |->
            IF s \in S /\ kept(s, kind)
            THEN Append(@[s], [kind |-> kind, arg |-> arg, prefix |-> prefix])
            ELSE @[s]]]

\* State.find_user
find_user(w, n) ==
    IF lower(n) \in DOMAIN w.connected_users THEN w.connected_users[lower(n)] ELSE "None"

\* State.find_channel, as the key of the channel.
find_channel(w, channel_name) ==
    IF lower(channel_name) \in DOMAIN w.channels THEN lower(channel_name) ELSE "None"

\* del d[k]; KeyError when k is absent is the caller's case.
del(d, k) == [x \in (DOMAIN d) \ {k} |-> d[x]]

\* d[k] = v
set(d, k, v) == [x \in (DOMAIN d) \cup {k} |-> IF x = k THEN v ELSE d[x]]

\* A registry that keeps a channel without members.
keep_channel(w, channel_name) == w

\* State.delete_channel
delete_channel(w, channel_name) ==
    [w EXCEPT !.channels = del(@, lower(channel_name))]

\* A broadcast that never includes the sender.
queue_message_to_other_users(w, k, kind, arg, sender, send_to_self) ==
    put_all(w, {u \in w.channels[k].users : u # sender}, kind, arg, get_user_mask(w, sender))

\* Channel.queue_message_to_chan_users
queue_message_to_chan_users(w, k, kind, arg, sender, send_to_self) ==
    put_all(w, {u \in w.channels[k].users : u # sender \/ send_to_self},
            kind, arg, get_user_mask(w, sender))

\* Every other user of the server.
get_other_users(w, s) == Sessions \ {s}

\* UserConnection.get_users_sharing_channel
get_users_sharing_channel(w, s) ==
    {u \in Sessions : u # s /\ \E k \in DOMAIN w.channels :
                                  s \in w.channels[k].users /\ u \in w.channels[k].users}


\* re.fullmatch(nick_regex, new_nick) on the names clients ask for.
nick_regex_fullmatch(new_nick) == new_nick \in NickArgs \cup {"carol"}

\* re.match(channel_regex, lower_channel_name) on the names clients ask for.
channel_regex_match(lower_channel_name) == lower_channel_name \in {lower(c) : c \in HashArgs}

\* receiver.startswith("#")
startswith_hash(x) == x \in HashArgs

\* UserConnection.get_prefix: "@" for an operator of the channel, else "".
get_prefix(w, s, k) == IF s \in w.channels[k].operators THEN "@" ELSE ""

\* fnmatch.fnmatch(target, ban_mask): "*" in the pattern covers any run of
\* pieces, every other piece of the pattern covers itself.
RECURSIVE fnmatch(_, _)
fnmatch(target, ban_mask) ==
    IF ban_mask = <<>>
    THEN target = <<>>
    ELSE IF Head(ban_mask) = "*"
    THEN fnmatch(target, Tail(ban_mask))
           \/ (target # <<>> /\ fnmatch(Tail(target), ban_mask))
    ELSE /\ target # <<>>
         /\ Head(target) = Head(ban_mask)
         /\ fnmatch(Tail(target), Tail(ban_mask))

\* The keys of Channel.ban_list, a dict that keeps the order of insertion: a
\* sequence of <<ban mask, user mask of the banner>>.
ban_list_keys(ban_list) == {ban_list[i][1] : i \in DOMAIN ban_list}

\* A ban list that nobody matches.
never_banned(w, k, target) == FALSE

\* Channel.check_if_banned
check_if_banned(w, k, target) ==
    \E ban_mask \in ban_list_keys(w.channels[k].ban_list) : fnmatch(target, ban_mask)

\* Channel.set_topic
set_topic(w, s, k, topic) ==
    [w EXCEPT !.channels[k].topic = IF topic = "" THEN <<>> ELSE <<topic, w.user[s].nick>>]

\* Channel.send_topic_to_user
send_topic_to_user(w, s, k) ==
    LET channel == w.channels[k]
    IN  IF channel.topic = <<>>
        THEN put(w, s, "331", <<w.user[s].nick, channel.name>>, mantatail)
        ELSE put(put(w, s, "332", <<w.user[s].nick, channel.name, channel.topic[1]>>, mantatail),
                 s, "333", <<w.user[s].nick, channel.name, channel.topic[2]>>, mantatail)

\* The first place of c in string, 0 when it has none (str.find).
find(string, c) ==
    IF \E i \in DOMAIN string : string[i] = c
    THEN CHOOSE i \in DOMAIN string : string[i] = c /\ \A j \in 1..(i - 1) : string[j] # c
    ELSE 0

\* The last place of c in string, 0 when it has none (str.rfind).
rfind(string, c) ==
    IF \E i \in DOMAIN string : string[i] = c
    THEN CHOOSE i \in DOMAIN string : string[i] = c /\ \A j \in (i + 1)..Len(string) : string[j] # c
    ELSE 0

\* string[a:b] with places counted from 1, b included.
slice(string, a, b) == IF a > b THEN <<>> ELSE SubSeq(string, a, b)

\* commands.generate_ban_mask
generate_ban_mask(ban_target) ==
    LET n == Len(ban_target)
        bang == find(ban_target, "!")
        at == find(ban_target, "@")
        rest == slice(ban_target, bang + 1, n)
        parts ==
            IF bang # 0 /\ at # 0
            THEN IF find(rest, "@") # 0
                 \* ([^!]*)!(.*)@(.*)
                 THEN LET last_at == bang + rfind(rest, "@")
                      IN  <<slice(ban_target, 1, bang - 1),
                            slice(ban_target, bang + 1, last_at - 1),
                            slice(ban_target, last_at + 1, n)>>
                 \* (.*)@(.*)!(.*): every "@" is before the first "!"
                 ELSE LET last_at == rfind(ban_target, "@")
                          last_bang == rfind(ban_target, "!")
                      IN  <<slice(ban_target, 1, last_at - 1),
                            slice(ban_target, last_at + 1, last_bang - 1),
                            slice(ban_target, last_bang + 1, n)>>
            ELSE IF bang # 0
            THEN <<slice(ban_target, 1, bang - 1), rest, <<"*">> >>
            ELSE IF at # 0
            THEN << <<"*">>, slice(ban_target, 1, at - 1), slice(ban_target, at + 1, n)>>
            ELSE <<ban_target, <<"*">>, <<"*">> >>
        nick == IF parts[1] = <<>> THEN <<"*">> ELSE parts[1]
        usr == IF parts[2] = <<>> THEN <<"*">> ELSE parts[2]
        host == IF parts[3] = <<>> THEN <<"*">> ELSE parts[3]
    IN  nick \o <<"!">> \o usr \o <<"@">> \o host

\* commands.handle_cap
handle_cap(w, s, args) ==
    IF args = <<>>
    THEN put(w, s, "461", <<"CAP">>, mantatail)
    ELSE LET w1 == [w EXCEPT !.user[s].capneg_in_progress = TRUE]
             n == w.user[s].nick
             low_cap_command == lower(args[1])
         IN  CASE low_cap_command = "ls" ->
                    LET w2 == put(w1, s, "CAP", <<n, "LS", CAP_LS>>, mantatail)
                    IN  IF Len(args) > 1 /\ args[2] = "302"
                        THEN [w2 EXCEPT !.user[s].cap_list = @ \cup {"cap-notify"}]
                        ELSE w2
               [] low_cap_command = "list" ->
                    put(w1, s, "CAP", <<n, "LIST", w1.user[s].cap_list>>, mantatail)
               [] low_cap_command = "req" ->
                    IF Len(args) = 1
                    THEN w1
                    ELSE LET capabilities == args[2]   \* args[1].split(" ")
                             unsupported_caps ==
                                 {i \in DOMAIN capabilities :
                                     \A j \in DOMAIN CAP_LS : capabilities[i] # CAP_LS[j]}
                         IN  IF unsupported_caps # {}
                             THEN put(w1, s, "CAP", <<n, "NAK", args[2]>>, mantatail)
                             ELSE put([w1 EXCEPT !.user[s].cap_list =
                                          @ \cup {capabilities[i] : i \in DOMAIN capabilities}],
                                      s, "CAP", <<n, "ACK", args[2]>>, mantatail)
               [] low_cap_command = "end" ->
                    [w1 EXCEPT !.user[s].capneg_in_progress = FALSE]
               [] OTHER -> w1

\* commands.handle_away
handle_away(w, s, args) ==
    LET receivers == get_users_sharing_channel(w, s)
        away_parameter == IF args = <<>> THEN "" ELSE args[1]
        w1 == IF away_parameter = ""
              THEN put([w EXCEPT !.user[s].away = "None"], s, "305", <<w.user[s].nick>>, mantatail)
              ELSE put([w EXCEPT !.user[s].away = away_parameter], s, "306", <<w.user[s].nick>>, mantatail)
    IN  put_all(w1, {r \in receivers : "away-notify" \in w1.user[r].cap_list},
                "AWAY", <<away_parameter>>, get_user_mask(w1, s))

\* commands.handle_topic
handle_topic(w, s, args) ==
    IF args = <<>>
    THEN put(w, s, "461", <<"TOPIC">>, mantatail)
    ELSE LET k == find_channel(w, args[1])
         IN  IF k = "None"
             THEN put(w, s, "403", <<args[1]>>, mantatail)
             ELSE IF Len(args) = 1
             THEN send_topic_to_user(w, s, k)
             ELSE IF "t" \in w.channels[k].modes /\ s \notin w.channels[k].operators
             THEN put(w, s, "482", <<w.channels[k].name>>, mantatail)
             ELSE queue_message_to_chan_users(set_topic(w, s, k, args[2]), k, "TOPIC",
                                              <<w.channels[k].name, args[2]>>, s, TRUE)

\* A NICK that renames with State.delete_user, which takes the session out of
\* the members of every channel.
nick_with_delete_user(w, s, args) ==
    IF args = <<>>
    THEN put(w, s, "431", <<>>, mantatail)
    ELSE LET new_nick == args[1]
             old_nick == w.user[s].nick
         IN  IF ~nick_regex_fullmatch(new_nick)
             THEN put(w, s, "432", <<new_nick>>, mantatail)
             ELSE IF new_nick \in DOMAIN w.connected_users
             THEN put(w, s, "433", <<old_nick, new_nick>>, mantatail)
             ELSE IF old_nick = "*"
             THEN [w EXCEPT !.user[s].nick = new_nick,
                            !.connected_users = set(@, lower(new_nick), s)]
             ELSE IF new_nick = old_nick
             THEN w
             ELSE LET w1 == put_all(w, get_users_sharing_channel(w, s),
                                    "NICK", <<new_nick>>, get_user_mask(w, s))
                      w2 == IF w.user[s].user_message
                            THEN put(w1, s, "NICK", <<new_nick>>, get_user_mask(w, s))
                            ELSE w1
                  IN  IF lower(old_nick) \notin DOMAIN w.connected_users
                      THEN [w2 EXCEPT !.raised = TRUE]
                      ELSE [w2 EXCEPT !.channels = [k \in DOMAIN @ |-> [@[k] EXCEPT !.users = @ \ {s}]],
                                      !.connected_users = set(del(@, lower(old_nick)), lower(new_nick), s),
                                      !.user[s].nick = new_nick]

\* commands.handle_nick
handle_nick(w, s, args) ==
    IF args = <<>>
    THEN put(w, s, "431", <<>>, mantatail)
    ELSE LET new_nick == args[1]
             old_nick == w.user[s].nick
         IN  IF ~nick_regex_fullmatch(new_nick)
             THEN put(w, s, "432", <<new_nick>>, mantatail)
             ELSE IF new_nick \in DOMAIN w.connected_users
             THEN put(w, s, "433", <<old_nick, new_nick>>, mantatail)
             ELSE IF old_nick = "*"
             THEN [w EXCEPT !.user[s].nick = new_nick,
                            !.connected_users = set(@, lower(new_nick), s)]
             ELSE IF new_nick = old_nick
             THEN w
             ELSE LET w1 == put_all(w, get_users_sharing_channel(w, s),
                                    "NICK", <<new_nick>>, get_user_mask(w, s))
                      w2 == IF w.user[s].user_message
                            THEN put(w1, s, "NICK", <<new_nick>>, get_user_mask(w, s))
                            ELSE w1
                  IN  IF lower(old_nick) \notin DOMAIN w.connected_users
                      THEN [w2 EXCEPT !.raised = TRUE]   \* KeyError
                      ELSE [w2 EXCEPT !.connected_users = set(del(@, lower(old_nick)), lower(new_nick), s),
                                      !.user[s].nick = new_nick]

\* A JOIN that announces a member again.
join_again(w, s, args) ==
    IF args = <<>>
    THEN put(w, s, "461", <<"JOIN">>, mantatail)
    ELSE LET channel_name == args[1]
             k == lower(channel_name)
         IN  IF ~channel_regex_match(k)
             THEN put(w, s, "403", <<channel_name>>, mantatail)
             ELSE LET w1 == IF k \notin DOMAIN w.channels
                            THEN [w EXCEPT !.channels = set(@, k, NewChannel(channel_name, s))]
                            ELSE w
                  IN  IF check_if_banned(w1, k, get_user_mask(w1, s))
                      THEN put(w1, s, "474", <<w1.channels[k].name>>, mantatail)
                      ELSE LET names == {<<get_prefix(w1, u, k), w1.user[u].nick>> :
                                            u \in w1.channels[k].users \cup {s}}
                               w2 == [w1 EXCEPT !.channels[k].users = @ \cup {s}]
                               w3 == queue_message_to_chan_users(w2, k, "JOIN", <<channel_name>>, s, TRUE)
                               w4 == put(w3, s, "353", <<channel_name, names>>, mantatail)
                           IN  put(w4, s, "366", <<channel_name>>, mantatail)

\* commands.handle_join
handle_join(w, s, args) ==
    IF args = <<>>
    THEN put(w, s, "461", <<"JOIN">>, mantatail)
    ELSE LET channel_name == args[1]
             k == lower(channel_name)
         IN  IF ~channel_regex_match(k)
             THEN put(w, s, "403", <<channel_name>>, mantatail)
             ELSE LET w1 == IF k \notin DOMAIN w.channels
                            THEN [w EXCEPT !.channels = set(@, k, NewChannel(channel_name, s))]
                            ELSE w
                  IN  IF check_if_banned(w1, k, get_user_mask(w1, s))
                      THEN put(w1, s, "474", <<w1.channels[k].name>>, mantatail)
                      ELSE IF s \in w1.channels[k].users
                      THEN w1
                      ELSE LET names == {<<get_prefix(w1, u, k), w1.user[u].nick>> :
                                            u \in w1.channels[k].users \cup {s}}
                               w2 == [w1 EXCEPT !.channels[k].users = @ \cup {s}]
                               w3 == queue_message_to_chan_users(w2, k, "JOIN", <<channel_name>>, s, TRUE)
                               w3t == IF w3.channels[k].topic # <<>>
                                      THEN send_topic_to_user(w3, s, k)
                                      ELSE w3
                               w4 == put(w3t, s, "353", <<channel_name, names>>, mantatail)
                               w5 == put(w4, s, "366", <<channel_name>>, mantatail)
                           IN  IF w5.user[s].away # "None"
                               THEN put_all(w5, {u \in w5.channels[k].users :
                                                    "away-notify" \in w5.user[u].cap_list},
                                            "AWAY", <<w5.user[s].away>>, get_user_mask(w5, s))
                               ELSE w5

\* commands.handle_part
handle_part(w, s, args) ==
    IF args = <<>>
    THEN put(w, s, "461", <<"PART">>, mantatail)
    ELSE LET channel_name == args[1]
             k == find_channel(w, channel_name)
         IN  IF k = "None"
             THEN put(w, s, "403", <<channel_name>>, mantatail)
             ELSE IF s \notin w.channels[k].users
             THEN put(w, s, "442", <<channel_name>>, mantatail)
             ELSE LET w1 == [w EXCEPT !.channels[k].operators = @ \ {s}]
                      w2 == queue_message_to_chan_users(w1, k, "PART", <<channel_name>>, s, TRUE)
                      w3 == [w2 EXCEPT !.channels[k].users = @ \ {s}]
                  IN  IF w3.channels[k].users = {}
                      THEN delete_channel(w3, channel_name)
                      ELSE w3

\* A KICK that does not ask for operator privileges.
kick_without_privileges(w, s, args) ==
    IF Len(args) < 2
    THEN put(w, s, "461", <<"KICK">>, mantatail)
    ELSE LET k == find_channel(w, args[1])
             target_usr == find_user(w, args[2])
         IN  IF k = "None"
             THEN put(w, s, "403", <<args[1]>>, mantatail)
             ELSE IF target_usr = "None"
             THEN put(w, s, "401", <<args[2]>>, mantatail)
             ELSE IF target_usr \notin w.channels[k].users
             THEN put(w, s, "441", <<w.user[target_usr].nick, w.channels[k].name>>, mantatail)
             ELSE LET reason == IF Len(args) = 2 THEN w.user[target_usr].nick ELSE args[3]
                      w1 == queue_message_to_chan_users(w, k, "KICK",
                                <<w.channels[k].name, w.user[target_usr].nick, reason>>, s, TRUE)
                      w2 == [w1 EXCEPT !.channels[k].users = @ \ {target_usr},
                                       !.channels[k].operators = @ \ {target_usr}]
                  IN  IF w2.channels[k].users = {}
                      THEN delete_channel(w2, w2.channels[k].name)
                      ELSE w2

\* commands.handle_kick
handle_kick(w, s, args) ==
    IF Len(args) < 2
    THEN put(w, s, "461", <<"KICK">>, mantatail)
    ELSE LET k == find_channel(w, args[1])
             target_usr == find_user(w, args[2])
         IN  IF k = "None"
             THEN put(w, s, "403", <<args[1]>>, mantatail)
             ELSE IF target_usr = "None"
             THEN put(w, s, "401", <<args[2]>>, mantatail)
             ELSE IF s \notin w.channels[k].operators
             THEN put(w, s, "482", <<w.channels[k].name>>, mantatail)
             ELSE IF target_usr \notin w.channels[k].users
             THEN put(w, s, "441", <<w.user[target_usr].nick, w.channels[k].name>>, mantatail)
             ELSE LET reason == IF Len(args) = 2 THEN w.user[target_usr].nick ELSE args[3]
                      w1 == queue_message_to_chan_users(w, k, "KICK",
                                <<w.channels[k].name, w.user[target_usr].nick, reason>>, s, TRUE)
                      w2 == [w1 EXCEPT !.channels[k].users = @ \ {target_usr},
                                       !.channels[k].operators = @ \ {target_usr}]
                  IN  IF w2.channels[k].users = {}
                      THEN delete_channel(w2, w2.channels[k].name)
                      ELSE w2

\* A MODE +o/-o that is broadcast whether or not it changes the operators.
mode_o_always_broadcast(w, s, k, mode_command, target_usr_nick) ==
    IF target_usr_nick = "None"
    THEN put(w, s, "461", <<"MODE">>, mantatail)
    ELSE LET target_usr == find_user(w, target_usr_nick)
         IN  IF target_usr = "None"
             THEN put(w, s, "401", <<target_usr_nick>>, mantatail)
             ELSE IF s \notin w.channels[k].operators
             THEN put(w, s, "482", <<w.channels[k].name>>, mantatail)
             ELSE IF target_usr \notin w.channels[k].users
             THEN put(w, s, "441", <<w.user[target_usr].nick, w.channels[k].name>>, mantatail)
             ELSE IF mode_command = "+"
             THEN [queue_message_to_chan_users(w, k, "MODE",
                        <<w.channels[k].name, "+o", w.user[target_usr].nick>>, s, TRUE)
                     EXCEPT !.channels[k].operators = @ \cup {target_usr}]
             ELSE [queue_message_to_chan_users(w, k, "MODE",
                        <<w.channels[k].name, "-o", w.user[target_usr].nick>>, s, TRUE)
                     EXCEPT !.channels[k].operators = @ \ {target_usr}]

\* commands.process_mode_o
process_mode_o(w, s, k, mode_command, target_usr_nick) ==
    IF target_usr_nick = "None"
    THEN put(w, s, "461", <<"MODE">>, mantatail)
    ELSE LET target_usr == find_user(w, target_usr_nick)
             in_ops == target_usr \in w.channels[k].operators
         IN  IF target_usr = "None"
             THEN put(w, s, "401", <<target_usr_nick>>, mantatail)
             ELSE IF s \notin w.channels[k].operators
             THEN put(w, s, "482", <<w.channels[k].name>>, mantatail)
             ELSE IF target_usr \notin w.channels[k].users
             THEN put(w, s, "441", <<w.user[target_usr].nick, w.channels[k].name>>, mantatail)
             ELSE IF mode_command = "+" /\ ~in_ops
             THEN [queue_message_to_chan_users(w, k, "MODE",
                        <<w.channels[k].name, "+o", w.user[target_usr].nick>>, s, TRUE)
                     EXCEPT !.channels[k].operators = @ \cup {target_usr}]
             ELSE IF mode_command = "-" /\ in_ops
             THEN [queue_message_to_chan_users(w, k, "MODE",
                        <<w.channels[k].name, "-o", w.user[target_usr].nick>>, s, TRUE)
                     EXCEPT !.channels[k].operators = @ \ {target_usr}]
             ELSE w

\* commands.privmsg_to_user
privmsg_to_user(w, sender, receiver, privmsg) ==
    LET receiver_usr == find_user(w, receiver)
    IN  IF receiver_usr = "None"
        THEN put(w, sender, "401", <<receiver>>, mantatail)
        ELSE LET w1 == put(w, receiver_usr, "PRIVMSG",
                           <<w.user[receiver_usr].nick, privmsg>>, get_user_mask(w, sender))
             IN  IF w.user[receiver_usr].away # "None"
                 THEN put(w1, sender, "301",
                          <<w.user[receiver_usr].nick, w.user[receiver_usr].away>>, mantatail)
                 ELSE w1

\* commands.handle_privmsg
handle_privmsg(w, s, args) ==
    IF args = <<>>
    THEN put(w, s, "411", <<"PRIVMSG">>, mantatail)
    ELSE IF Len(args) = 1
    THEN put(w, s, "412", <<>>, mantatail)
    ELSE LET receiver == args[1]
             privmsg == args[2]
         IN  IF ~startswith_hash(receiver)
             THEN privmsg_to_user(w, s, receiver, privmsg)
             ELSE LET k == find_channel(w, receiver)
                  IN  IF k = "None"
                      THEN put(w, s, "403", <<receiver>>, mantatail)
                      ELSE IF s \notin w.channels[k].users
                      THEN put(w, s, "442", <<receiver>>, mantatail)
                      ELSE IF check_if_banned(w, k, get_user_mask(w, s))
                      THEN put(w, s, "404", <<w.channels[k].name>>, mantatail)
                      ELSE queue_message_to_chan_users(w, k, "PRIVMSG", <<receiver, privmsg>>, s, FALSE)

\* commands.handle_quit
handle_quit(w, s, args) ==
    put_sentinel(w, s, IF args = <<>> THEN "Client quit" ELSE args[1])

\* commands.handle_pong
handle_pong(w, s, args) ==
    IF args # <<>> /\ args[1] = "mantatail"
    THEN [w EXCEPT !.user[s].pong_received = TRUE]
    ELSE put(w, s, "409", <<>>, mantatail)


\* One 372 line per line of the MOTD, from line i on.
RECURSIVE put_motd_lines(_, _, _, _)
put_motd_lines(w, s, lines, i) ==
    IF i > Len(lines)
    THEN w
    ELSE put_motd_lines(put(w, s, "372", <<w.user[s].nick, lines[i]>>, mantatail), s, lines, i + 1)

\* commands.motd: 375, then the 372 lines, or 422 without motd.json, then 376.
motd(w, s) ==
    LET n == w.user[s].nick
        w1 == put(w, s, "375", <<n>>, mantatail)
        w2 == IF w.motd_content.found
              THEN put_motd_lines(w1, s, w.motd_content.motd, 1)
              ELSE put(w1, s, "422", <<n>>, mantatail)
    IN  put(w2, s, "376", <<n>>, mantatail)

\* A welcome that leaves motd_sent as it is.
welcome_unmarked(w, s) ==
    LET n == w.user[s].nick
        w1 == put(w, s, "001", <<n, get_user_mask(w, s)>>, mantatail)
        w2 == put(w1, s, "002", <<n>>, mantatail)
        w3 == put(w2, s, "003", <<n>>, mantatail)
        w4 == put(w3, s, "004", <<n>>, mantatail)
        w5 == put(w4, s, "005", <<n>>, mantatail)
    IN  motd(w5, s)

\* UserConnection.on_registration: 001 .. 005, the MOTD block, motd_sent.
on_registration(w, s) ==
    LET n == w.user[s].nick
        w1 == put(w, s, "001", <<n, get_user_mask(w, s)>>, mantatail)
        w2 == put(w1, s, "002", <<n>>, mantatail)
        w3 == put(w2, s, "003", <<n>>, mantatail)
        w4 == put(w3, s, "004", <<n>>, mantatail)
        w5 == put(w4, s, "005", <<n>>, mantatail)
    IN  [motd(w5, s) EXCEPT !.user[s].motd_sent = TRUE]

\* CommandReceiver.handle_user_registration
handle_user_registration(w, s, cmd) ==
    CASE cmd.verb = "user" ->
            IF cmd.args # <<>>
            THEN [w EXCEPT !.user[s].user_message = TRUE]
            ELSE put(w, s, "461", <<"USER">>, mantatail)
      [] cmd.verb = "nick" -> handle_nick(w, s, cmd.args)
      [] cmd.verb = "pong" -> handle_pong(w, s, cmd.args)
      [] cmd.verb = "cap" -> handle_cap(w, s, cmd.args)
      [] OTHER -> put(w, s, "451", <<w.user[s].nick>>, mantatail)

\* One 367 line per entry of the ban list, from entry i on.
RECURSIVE put_ban_list(_, _, _, _)
put_ban_list(w, s, k, i) ==
    LET channel == w.channels[k]
    IN  IF i > Len(channel.ban_list)
        THEN w
        ELSE put_ban_list(put(w, s, "367", <<w.user[s].nick, channel.name,
                                             channel.ban_list[i][1], channel.ban_list[i][2]>>,
                              mantatail), s, k, i + 1)

\* del channel.ban_list[target_ban_mask], KeyError passed over.
del_ban(ban_list, target_ban_mask) ==
    LET Other(entry) == entry[1] # target_ban_mask
    IN  SelectSeq(ban_list, Other)

\* commands.process_mode_b; ban_target is <<>> for None and for "".
process_mode_b(w, s, k, mode_command, ban_target) ==
    LET channel == w.channels[k]
    IN  IF ban_target = <<>>
        THEN put(put_ban_list(w, s, k, 1), s, "368", <<w.user[s].nick, channel.name>>, mantatail)
        ELSE IF s \notin channel.operators
        THEN put(w, s, "482", <<channel.name>>, mantatail)
        ELSE LET target_ban_mask == generate_ban_mask(ban_target)
                 is_already_banned == check_if_banned(w, k, target_ban_mask)
                 w1 == queue_message_to_chan_users(w, k, "MODE",
                           <<channel.name, mode_command, "b", target_ban_mask>>, s, TRUE)
             IN  IF mode_command = "+" /\ ~is_already_banned
                 THEN [w1 EXCEPT !.channels[k].ban_list =
                                     Append(@, <<target_ban_mask, get_user_mask(w, s)>>)]
                 ELSE IF mode_command = "-" /\ is_already_banned
                 THEN [w1 EXCEPT !.channels[k].ban_list = del_ban(@, target_ban_mask)]
                 ELSE w

\* commands.process_mode_t
process_mode_t(w, s, k, mode_command) ==
    LET channel == w.channels[k]
        w1 == queue_message_to_chan_users(w, k, "MODE", <<channel.name, mode_command, "t">>, s, TRUE)
    IN  IF s \notin channel.operators
        THEN put(w, s, "482", <<channel.name>>, mantatail)
        ELSE IF mode_command = "+" /\ "t" \notin channel.modes
        THEN [w1 EXCEPT !.channels[k].modes = @ \cup {"t"}]
        ELSE IF mode_command = "-" /\ "t" \in channel.modes
        THEN [w1 EXCEPT !.channels[k].modes = @ \ {"t"}]
        ELSE w

\* The loop "for flag in flags" of process_channel_modes from flag i on;
\* parameters is what the iterator over args[2:] still holds.
RECURSIVE process_flags(_, _, _, _, _, _, _)
process_flags(w, s, k, mode_command, flags, i, parameters) ==
    IF i > Len(flags)
    THEN w
    ELSE LET flag == flags[i]
             rest == IF parameters = <<>> THEN <<>> ELSE Tail(parameters)
         IN  CASE flag = "b" ->
                    process_flags(process_mode_b(w, s, k, mode_command,
                                      IF parameters = <<>> THEN <<>> ELSE Head(parameters)),
                                  s, k, mode_command, flags, i + 1, rest)
               [] flag = "o" ->
                    process_flags(process_mode_o(w, s, k, mode_command,
                                      IF parameters = <<>> THEN "None" ELSE Head(parameters)),
                                  s, k, mode_command, flags, i + 1, rest)
               [] flag = "t" ->
                    process_flags(process_mode_t(w, s, k, mode_command),
                                  s, k, mode_command, flags, i + 1, parameters)
               [] OTHER ->
                    process_flags(w, s, k, mode_command, flags, i + 1, parameters)

\* The first flag of the change that is not supported, 0 when all are.
first_unknown_mode(flags) ==
    IF \E i \in DOMAIN flags : flags[i] \notin supported_modes
    THEN CHOOSE i \in DOMAIN flags :
            flags[i] \notin supported_modes /\ \A j \in 1..(i - 1) : flags[j] \in supported_modes
    ELSE 0

\* commands.process_channel_modes; args[1] is the change as the sequence of
\* its characters, and args[1][0] of an empty change raises IndexError.
process_channel_modes(w, s, args) ==
    LET k == find_channel(w, args[1])
    IN  IF k = "None"
        THEN put(w, s, "403", <<args[1]>>, mantatail)
        ELSE IF Len(args) = 1
        THEN put(w, s, "324", <<w.user[s].nick, w.channels[k].name, w.channels[k].modes>>, mantatail)
        ELSE IF args[2] = <<>>
        THEN [w EXCEPT !.raised = TRUE]
        ELSE IF args[2][1] \notin {"+", "-"}
        THEN put(w, s, "472", <<args[2][1]>>, mantatail)
        ELSE LET flags == Tail(args[2])
                 unknown == first_unknown_mode(flags)
             IN  IF unknown # 0
                 THEN put(w, s, "472", <<flags[unknown]>>, mantatail)
                 ELSE process_flags(w, s, k, args[2][1], flags, 1, SubSeq(args, 3, Len(args)))

\* commands.handle_mode
handle_mode(w, s, args) ==
    IF args = <<>>
    THEN put(w, s, "461", <<"MODE">>, mantatail)
    ELSE IF startswith_hash(args[1])
    THEN process_channel_modes(w, s, args)
    ELSE IF find_user(w, args[1]) # s   \* nobody, or another user
    THEN put(w, s, "403", <<args[1]>>, mantatail)
    ELSE w                               \* process_user_modes

\* getattr(commands, "handle_" + command_lower): the verbs that have a handler.
HandlerVerbs ==
    {"nick", "join", "part", "kick", "mode", "quit", "pong", "privmsg", "cap", "away", "topic"}

\* call_handler_function(self.state, self.user, args)
call_handler_function(w, s, cmd) ==
    CASE cmd.verb = "nick" -> handle_nick(w, s, cmd.args)
      [] cmd.verb = "join" -> handle_join(w, s, cmd.args)
      [] cmd.verb = "part" -> handle_part(w, s, cmd.args)
      [] cmd.verb = "kick" -> handle_kick(w, s, cmd.args)
      [] cmd.verb = "mode" -> handle_mode(w, s, cmd.args)
      [] cmd.verb = "quit" -> handle_quit(w, s, cmd.args)
      [] cmd.verb = "pong" -> handle_pong(w, s, cmd.args)
      [] cmd.verb = "privmsg" -> handle_privmsg(w, s, cmd.args)
      [] cmd.verb = "cap" -> handle_cap(w, s, cmd.args)
      [] cmd.verb = "away" -> handle_away(w, s, cmd.args)
      [] cmd.verb = "topic" -> handle_topic(w, s, cmd.args)

\* UserConnection.queue_quit_message_for_other_users
queue_quit_message_for_other_users(w, s, reason) ==
    LET receivers == get_users_sharing_channel(w, s)
        w1 == [w EXCEPT !.channels =
                  [k \in DOMAIN @ |-> [@[k] EXCEPT !.operators = @ \ {s}]]]
    IN  put_all(w1, receivers, "QUIT", reason, get_user_mask(w1, s))

\* State.delete_user: the session found under nick leaves every channel and
\* the key is deleted; AssertionError when nobody is found.
delete_user(w, n) ==
    LET found == find_user(w, n)
    IN  IF found = "None"
        THEN [w EXCEPT !.raised = TRUE]
        ELSE [w EXCEPT !.channels = [k \in DOMAIN @ |-> [@[k] EXCEPT !.users = @ \ {found}]],
                       !.connected_users = del(@, lower(n))]

\* The command lines clients send.
Commands ==
    {[verb |-> "nick", args |-> <<n>>] : n \in NickArgs}
    \cup {[verb |-> "user", args |-> <<"usr">>]}
    \cup {[verb |-> v, args |-> <<c>>] : v \in {"join", "part"}, c \in ChanArgs}
    \cup {[verb |-> "kick", args |-> <<c, n>>] : c \in ChanArgs, n \in NickArgs}
    \cup {[verb |-> "mode", args |-> <<c, <<m, "o">>, n>>] : c \in ChanArgs, m \in {"+", "-"}, n \in NickArgs}
    \cup {[verb |-> "quit", args |-> <<>>], [verb |-> "pong", args |-> <<"mantatail">>],
          [verb |-> "foo", args |-> <<>>]}

\* A dispatch that tests the nick only.
NickIsUnset(s) == user[s].nick = "*"

\* The condition of recv_loop line 183: the session has not registered yet.
PreRegistration(s) ==
    user[s].nick = "*" \/ ~user[s].user_message \/ ~user[s].motd_sent

\* A registration that does not wait for the end of the CAP negotiation.
register_without_cap(w, s, cmd) ==
    LET w1 == handle_user_registration(w, s, cmd)
    IN  IF ~w1.raised /\ w1.user[s].nick # "*" /\ w1.user[s].user_message
        THEN on_registration(w1, s)
        ELSE w1

\* recv_loop, lines 187-195: a command other than QUIT of a session that has
\* not registered, and the welcome when the registration is complete.
register(w, s, cmd) ==
    LET w1 == handle_user_registration(w, s, cmd)
    IN  IF /\ ~w1.raised
           /\ w1.user[s].nick # "*"
           /\ w1.user[s].user_message
           /\ ~w1.user[s].capneg_in_progress
        THEN on_registration(w1, s)
        ELSE w1

\* The step appends only to queues that were empty or stay within MaxQueue.
QueueRoom(w) ==
    \A s \in Sessions :
        Len(w.send_que[s]) > Len(send_que[s]) =>
            send_que[s] = <<>> \/ Len(w.send_que[s]) <= MaxQueue

\* The registry and the queues after a step.
Commit(w) ==
    /\ QueueRoom(w)
    /\ user' = w.user
    /\ connected_users' = w.connected_users
    /\ channels' = w.channels
    /\ send_que' = w.send_que

Init ==
    /\ user = [s \in Sessions |-> NewUser]
    /\ connected_users = <<>>
    /\ channels = <<>>
    /\ lock = NoThread
    /\ send_que = [s \in Sessions |-> <<>>]
    /\ rpc = [s \in Sessions |-> "absent"]
    /\ wpc = [s \in Sessions |-> "absent"]
    /\ sock = [s \in Sessions |-> "none"]
    /\ wire = [s \in Sessions |-> NoFrame]
    /\ grace = [s \in Sessions |-> FALSE]
    /\ cleanups = [s \in Sessions |-> 0]
    /\ recording = "sentinels"
    /\ motd_content = NoMotd
    /\ NoInput

\* ConnectionListener.run_server_forever: accept, CommandReceiver.__init__,
\* UserConnection.__init__ (which starts the writer thread).
Accept(s) ==
    /\ rpc[s] = "absent"
    /\ rpc' = [rpc EXCEPT ![s] = "recv"]
    /\ wpc' = [wpc EXCEPT ![s] = "get"]
    /\ sock' = [sock EXCEPT ![s] = "open"]
    /\ UNCHANGED <<user, connected_users, channels, lock, send_que, wire, grace, cleanups>>

\* recv_loop, lines 183-195: one command of a session that has not registered.
\* No lock is taken.  QUIT and an exception leave the loop; "finally" puts the
\* sentinel.
RecvPreRegistration(s, cmds) ==
    /\ rpc[s] = "recv"
    /\ sock[s] = "open"
    /\ PreRegistration(s)
    /\ \E cmd \in cmds :
          IF cmd.verb = "quit"
          THEN /\ Commit(put_sentinel(World, s, "Client quit"))
               /\ rpc' = [rpc EXCEPT ![s] = "done"]
          ELSE LET w2 == register(World, s, cmd)
               IN  IF w2.raised
                   THEN /\ Commit(put_sentinel(w2, s, ""))
                        /\ rpc' = [rpc EXCEPT ![s] = "done"]
                   ELSE /\ Commit(w2)
                        /\ UNCHANGED rpc
    /\ UNCHANGED <<lock, wpc, sock, wire, grace, cleanups>>

\* recv_loop, lines 198-203: a verb without a handler is answered with 421.
RecvUnknownCommand(s, cmds) ==
    /\ rpc[s] = "recv"
    /\ sock[s] = "open"
    /\ ~PreRegistration(s)
    /\ \E cmd \in cmds :
          /\ cmd.verb \notin HandlerVerbs
          /\ Commit(put(World, s, "421", <<user[s].nick, cmd.verb>>, mantatail))
    /\ UNCHANGED <<lock, rpc, wpc, sock, wire, grace, cleanups>>

\* recv_loop, line 204: "with self.state.lock" is entered.
ReaderAcquire(s) ==
    /\ rpc[s] = "recv"
    /\ sock[s] = "open"
    /\ ~PreRegistration(s)
    /\ lock = NoThread
    /\ lock' = Reader(s)
    /\ rpc' = [rpc EXCEPT ![s] = "locked"]
    /\ UNCHANGED <<user, connected_users, channels, send_que, wpc, sock, wire, grace, cleanups>>

\* A reader that goes back to recv with the lock still held.
handle_and_keep_lock(s, cmds) ==
    /\ rpc[s] = "locked"
    /\ lock = Reader(s)
    /\ \E cmd \in cmds :
          /\ cmd.verb \in HandlerVerbs
          /\ LET w1 == call_handler_function(World, s, cmd)
             IN  IF cmd.verb = "quit" \/ w1.raised
                 THEN /\ Commit(put_sentinel(w1, s, ""))
                      /\ rpc' = [rpc EXCEPT ![s] = "done"]
                 ELSE /\ Commit(w1)
                      /\ rpc' = [rpc EXCEPT ![s] = "recv"]
    /\ UNCHANGED <<lock, wpc, sock, wire, grace, cleanups>>

\* recv_loop, lines 205-210: the handler runs and the lock is released.
\* After QUIT, and after an exception, the loop is left and "finally" puts the
\* sentinel with the reader's (empty) disconnect reason.
ReaderHandle(s, cmds) ==
    /\ rpc[s] = "locked"
    /\ lock = Reader(s)
    /\ \E cmd \in cmds :
          /\ cmd.verb \in HandlerVerbs
          /\ LET w1 == call_handler_function(World, s, cmd)
             IN  IF cmd.verb = "quit" \/ w1.raised
                 THEN /\ Commit(put_sentinel(w1, s, ""))
                      /\ rpc' = [rpc EXCEPT ![s] = "done"]
                 ELSE /\ Commit(w1)
                      /\ rpc' = [rpc EXCEPT ![s] = "recv"]
    /\ lock' = NoThread
    /\ UNCHANGED <<wpc, sock, wire, grace, cleanups>>

\* receive_messages returns None (the peer closed, or recv raised OSError):
\* the loop is left and "finally" puts the sentinel.
ReaderExit(s) ==
    /\ rpc[s] = "recv"
    /\ Commit(put_sentinel(World, s, IF sock[s] = "open"
                                      THEN "Remote host closed the connection"
                                      ELSE "Bad file descriptor"))
    /\ rpc' = [rpc EXCEPT ![s] = "done"]
    /\ UNCHANGED <<lock, wpc, sock, wire, grace, cleanups>>


\* UserConnection.send_string_to_client: sendall, whose OSError is caught and
\* dropped inside the method.  ok says whether sendall succeeded.
send_string_to_client(s, frame, ok) ==
    IF ok /\ recording = "wire"
    THEN [wire EXCEPT ![s] = frame]
    ELSE wire

\* A queue that hands out the newest frame first.
get_newest(q) == q[Len(q)]

\* The frame the writer takes with send_que.get(): the oldest one.
get(q) == Head(q)

\* send_queue_thread, lines 383-388: a frame is taken and sent.  The handler
\* of OSError around the call never runs, because send_string_to_client does
\* not let the error out.
WriterSend(s) ==
    /\ wpc[s] = "get"
    /\ send_que[s] # <<>>
    /\ get(send_que[s]).kind # "None"
    /\ \E ok \in BOOLEAN : wire' = send_string_to_client(s, get(send_que[s]), ok)
    /\ send_que' = [send_que EXCEPT ![s] = Tail(@)]
    /\ UNCHANGED <<user, connected_users, channels, lock, rpc, wpc, sock, grace, cleanups>>

\* send_queue_thread, lines 364-367: the sentinel is taken and the lock is
\* entered.  The sentinel stays at the head until the cleanup has read its
\* reason.
WriterAcquire(s) ==
    /\ wpc[s] = "get"
    /\ send_que[s] # <<>>
    /\ get(send_que[s]).kind = "None"
    /\ lock = NoThread
    /\ lock' = Writer(s)
    /\ wpc' = [wpc EXCEPT ![s] = "cleanup"]
    /\ UNCHANGED <<user, connected_users, channels, send_que, rpc, sock, wire, grace, cleanups>>

\* send_queue_thread, lines 368-370, under the lock: QUIT to the sessions
\* sharing a channel, then delete_user.  An AssertionError of delete_user ends
\* the writer thread; the "with" statement releases the lock.
WriterCleanup(s) ==
    /\ wpc[s] = "cleanup"
    /\ lock = Writer(s)
    /\ LET reason == Head(send_que[s]).prefix
           w0 == [World EXCEPT !.send_que[s] = Tail(@)]
           w1 == queue_quit_message_for_other_users(w0, s, reason)
           w2 == IF user[s].nick # "*" THEN delete_user(w1, user[s].nick) ELSE w1
       IN  /\ Commit(w2)
           /\ wpc' = [wpc EXCEPT ![s] = IF w2.raised THEN "dead" ELSE "cleaned"]
           /\ cleanups' = [cleanups EXCEPT ![s] = IF w2.raised THEN @ ELSE @ + 1]
    /\ lock' = NoThread
    /\ UNCHANGED <<rpc, sock, wire, grace>>

\* send_queue_thread, lines 372-382: the last QUIT line is written outside
\* the queue, then close_socket_cleanly closes the socket.
WriterClose(s) ==
    /\ wpc[s] = "cleaned"
    /\ \E ok \in BOOLEAN :
          wire' = send_string_to_client(s,
                      [kind |-> "QUIT", arg |-> <<"final">>,
                       prefix |-> IF user[s].nick = "*" \/ ~user[s].user_message
                                  THEN <<>> ELSE get_user_mask(World, s)], ok)
    /\ sock' = [sock EXCEPT ![s] = "closed"]
    /\ wpc' = [wpc EXCEPT ![s] = "closed"]
    /\ UNCHANGED <<user, connected_users, channels, lock, send_que, rpc, grace, cleanups>>

\* UserConnection.queue_ping_message: the idle timer fires while the reader
\* waits in recv; PING is queued and the 5 second timer is started.
QueuePing(s) ==
    /\ rpc[s] = "recv"
    /\ sock[s] = "open"
    /\ ~grace[s]
    /\ Commit(put(World, s, "PING", <<"mantatail">>, mantatail))
    /\ grace' = [grace EXCEPT ![s] = TRUE]
    /\ UNCHANGED <<lock, rpc, wpc, sock, wire, cleanups>>

\* UserConnection.assert_pong_received: the 5 second timer fires.
AssertPong(s) ==
    /\ grace[s]
    /\ IF ~user[s].pong_received
       THEN Commit(put_sentinel(World, s, "Ping timeout..."))
       ELSE Commit([World EXCEPT !.user[s].pong_received = FALSE])
    /\ grace' = [grace EXCEPT ![s] = FALSE]
    /\ UNCHANGED <<lock, rpc, wpc, sock, wire, cleanups>>

\* The steps of the reader and the writer of s, for the command lines cmds,
\* in a run in which the queues keep only the sentinels.
Step(s, cmds) ==
    \/ Accept(s)
    \/ RecvPreRegistration(s, cmds)
    \/ RecvUnknownCommand(s, cmds)
    \/ ReaderAcquire(s)
    \/ ReaderHandle(s, cmds)
    \/ ReaderExit(s)
    \/ WriterAcquire(s)
    \/ WriterCleanup(s)
    \/ WriterClose(s)

Next ==
    /\ UNCHANGED <<recording, motd_content, decoded_command, command_lines, current_param, canonical_mask>>
    /\ \E s \in Sessions : Step(s, Commands)

Spec == Init /\ [][Next]_vars

\* The command lines of the runs with the liveness timers: one nickname, so
\* that no two sessions ever ask for nicknames that differ in case only.
PingCommands ==
    {[verb |-> "nick", args |-> <<"bob">>], [verb |-> "user", args |-> <<"usr">>],
     [verb |-> "join", args |-> <<"#foo">>], [verb |-> "part", args |-> <<"#foo">>],
     [verb |-> "pong", args |-> <<"mantatail">>], [verb |-> "quit", args |-> <<>>]}

NextPing ==
    /\ UNCHANGED <<recording, motd_content, decoded_command, command_lines, current_param, canonical_mask>>
    /\ \E s \in Sessions :
          \/ Step(s, PingCommands)
          \/ QueuePing(s)
          \/ AssertPong(s)

SpecPing == Init /\ [][NextPing]_vars

\* The command lines of the runs that record what is written to the sockets.
WireCommands ==
    {[verb |-> "privmsg", args |-> <<"Alice", "hi">>], [verb |-> "foo", args |-> <<>>]}

\* The nick under which a session of these runs has registered.
WireNick(s) == IF s = "s1" THEN "Alice" ELSE "bob"

\* The state in which every session has registered (NICK, USER) and its
\* writer has sent the welcome block, of which 376 is the last line.
InitWire ==
    /\ user = [s \in Sessions |->
                  [NewUser EXCEPT !.nick = WireNick(s), !.user_message = TRUE, !.motd_sent = TRUE]]
    /\ connected_users = [key \in {lower(WireNick(s)) : s \in Sessions} |->
                              CHOOSE s \in Sessions : lower(WireNick(s)) = key]
    /\ channels = <<>>
    /\ lock = NoThread
    /\ send_que = [s \in Sessions |-> <<>>]
    /\ rpc = [s \in Sessions |-> "recv"]
    /\ wpc = [s \in Sessions |-> "get"]
    /\ sock = [s \in Sessions |-> "open"]
    /\ wire = [s \in Sessions |->
                  [kind |-> "376", arg |-> <<WireNick(s)>>, prefix |-> mantatail]]
    /\ grace = [s \in Sessions |-> FALSE]
    /\ cleanups = [s \in Sessions |-> 0]
    /\ recording = "wire"
    /\ motd_content = NoMotd
    /\ NoInput

NextWire ==
    /\ UNCHANGED <<recording, motd_content, decoded_command, command_lines, current_param, canonical_mask>>
    /\ \E s \in Sessions :
          \/ RecvUnknownCommand(s, WireCommands)
          \/ ReaderAcquire(s)
          \/ ReaderHandle(s, WireCommands)
          \/ ReaderExit(s)
          \/ WriterSend(s)
          \/ WriterAcquire(s)
          \/ WriterCleanup(s)
          \/ WriterClose(s)
          \/ QueuePing(s)
          \/ AssertPong(s)

SpecWire == InitWire /\ [][NextWire]_vars

\* The command lines of the runs about registration.
RegCommands ==
    {[verb |-> "nick", args |-> <<"bob">>], [verb |-> "user", args |-> <<"usr">>],
     [verb |-> "cap", args |-> <<"LS", "302">>], [verb |-> "cap", args |-> <<"LIST">>],
     [verb |-> "cap", args |-> <<"END">>],
     [verb |-> "join", args |-> <<"#foo">>], [verb |-> "quit", args |-> <<>>]}

\* The command lines of the other connection of these runs, which asks for
\* one of the nicks and never sends USER.
RivalCommands == {[verb |-> "nick", args |-> <<"bob">>], [verb |-> "quit", args |-> <<>>]}

\* No connection yet; the server has found motd.json or has not; the queues
\* keep every frame.
InitReg ==
    /\ user = [s \in Sessions |-> NewUser]
    /\ connected_users = <<>>
    /\ channels = <<>>
    /\ lock = NoThread
    /\ send_que = [s \in Sessions |-> <<>>]
    /\ rpc = [s \in Sessions |-> "absent"]
    /\ wpc = [s \in Sessions |-> "absent"]
    /\ sock = [s \in Sessions |-> "none"]
    /\ wire = [s \in Sessions |-> NoFrame]
    /\ grace = [s \in Sessions |-> FALSE]
    /\ cleanups = [s \in Sessions |-> 0]
    /\ recording = "frames"
    /\ motd_content \in {NoMotd, MotdJson}
    /\ NoInput

NextReg ==
    /\ UNCHANGED <<recording, motd_content, decoded_command, command_lines, current_param, canonical_mask>>
    /\ \E s \in Sessions :
          \/ Step(s, IF s = "s1" THEN RegCommands ELSE RivalCommands)
          \/ WriterSend(s)

SpecReg == InitReg /\ [][NextReg]_vars

\* The command lines of the runs about channels: two channels and a message.
ChanCommands ==
    {[verb |-> "join", args |-> <<"#foo">>], [verb |-> "join", args |-> <<"#bar">>],
     [verb |-> "part", args |-> <<"#foo">>],
     [verb |-> "privmsg", args |-> <<"#foo", "hi">>],
     [verb |-> "quit", args |-> <<"bye">>]}

\* The command lines of the runs about renames: two channels, a rename to a
\* free nick and one that changes the letter case only.
NickCommands ==
    {[verb |-> "join", args |-> <<"#foo">>], [verb |-> "join", args |-> <<"#bar">>],
     [verb |-> "nick", args |-> <<"carol">>], [verb |-> "nick", args |-> <<"ALICE">>]}

\* The state in which every session has registered and its writer has sent
\* the welcome block; the queues keep every frame.
InitChan ==
    /\ user = [s \in Sessions |->
                  [NewUser EXCEPT !.nick = WireNick(s), !.user_message = TRUE, !.motd_sent = TRUE]]
    /\ connected_users = [key \in {lower(WireNick(s)) : s \in Sessions} |->
                              CHOOSE s \in Sessions : lower(WireNick(s)) = key]
    /\ channels = <<>>
    /\ lock = NoThread
    /\ send_que = [s \in Sessions |-> <<>>]
    /\ rpc = [s \in Sessions |-> "recv"]
    /\ wpc = [s \in Sessions |-> "get"]
    /\ sock = [s \in Sessions |-> "open"]
    /\ wire = [s \in Sessions |-> NoFrame]
    /\ grace = [s \in Sessions |-> FALSE]
    /\ cleanups = [s \in Sessions |-> 0]
    /\ recording = "frames"
    /\ motd_content = NoMotd
    /\ NoInput

\* The steps of a registered session that is served with the command lines cmds.
ChanStep(s, cmds) ==
    \/ ReaderAcquire(s)
    \/ ReaderHandle(s, cmds)
    \/ ReaderExit(s)
    \/ WriterSend(s)
    \/ WriterAcquire(s)
    \/ WriterCleanup(s)
    \/ WriterClose(s)

NextChan ==
    /\ UNCHANGED <<recording, motd_content, decoded_command, command_lines, current_param, canonical_mask>>
    /\ \E s \in Sessions : ChanStep(s, ChanCommands)

SpecChan == InitChan /\ [][NextChan]_vars

\* The command lines of the runs about bans.  A parameter of the flag b is a
\* string cut at "!", "@" and "*".
BanCommands ==
    {[verb |-> "join", args |-> <<"#foo">>], [verb |-> "part", args |-> <<"#foo">>],
     [verb |-> "privmsg", args |-> <<"#foo", "hi">>],
     [verb |-> "mode", args |-> <<"#foo", <<"+", "b">>, <<"bob">> >>],
     [verb |-> "mode", args |-> <<"#foo", <<"-", "b">>, <<"bob">> >>],
     [verb |-> "mode", args |-> <<"#foo", <<"+", "b">>, <<"@", "s2">> >>],
     [verb |-> "mode", args |-> <<"#foo", <<"-", "b">>, <<"@", "s2">> >>]}

\* The command lines of the runs about operator privileges.
OpCommands ==
    {[verb |-> "join", args |-> <<"#foo">>],
     [verb |-> "mode", args |-> <<"#foo", <<"+", "o">>, "bob">>],
     [verb |-> "mode", args |-> <<"#foo", <<"-", "o">>, "Alice">>],
     [verb |-> "mode", args |-> <<"#foo", <<"+", "b">>, <<"Alice">> >>],
     [verb |-> "kick", args |-> <<"#foo", "bob">>],
     [verb |-> "kick", args |-> <<"#foo", "Alice">>]}

\* Runs in which no session disconnects.
NextBan ==
    /\ UNCHANGED <<recording, motd_content, decoded_command, command_lines, current_param, canonical_mask>>
    /\ \E s \in Sessions :
          \/ ReaderAcquire(s)
          \/ ReaderHandle(s, BanCommands)
          \/ WriterSend(s)

SpecBan == InitChan /\ [][NextBan]_vars

\* Runs in which no session disconnects.
NextOp ==
    /\ UNCHANGED <<recording, motd_content, decoded_command, command_lines, current_param, canonical_mask>>
    /\ \E s \in Sessions :
          \/ ReaderAcquire(s)
          \/ ReaderHandle(s, OpCommands)
          \/ WriterSend(s)

SpecOp == InitChan /\ [][NextOp]_vars

NextNick ==
    /\ UNCHANGED <<recording, motd_content, decoded_command, command_lines, current_param, canonical_mask>>
    /\ \E s \in Sessions : ChanStep(s, NickCommands)

SpecNick == InitChan /\ [][NextNick]_vars

\* The command lines of the runs with malformed commands: missing parameters
\* and a channel MODE whose change is the empty string ("MODE #foo :").  No
\* session sends QUIT.
FuzzCommands ==
    {[verb |-> "mode", args |-> <<"#foo">>],
     [verb |-> "mode", args |-> <<"#foo", <<>> >>],
     [verb |-> "kick", args |-> <<"#foo">>],
     [verb |-> "part", args |-> <<>>]}

\* The state in which every session has registered, s1 has created #foo, s2
\* has joined it, and the writers have sent the frames of the joins.
InitFuzz ==
    /\ user = [s \in Sessions |->
                  [NewUser EXCEPT !.nick = WireNick(s), !.user_message = TRUE, !.motd_sent = TRUE]]
    /\ connected_users = [key \in {lower(WireNick(s)) : s \in Sessions} |->
                              CHOOSE s \in Sessions : lower(WireNick(s)) = key]
    /\ channels = [k \in {"#foo"} |-> [NewChannel("#foo", "s1") EXCEPT !.users = Sessions]]
    /\ lock = NoThread
    /\ send_que = [s \in Sessions |-> <<>>]
    /\ rpc = [s \in Sessions |-> "recv"]
    /\ wpc = [s \in Sessions |-> "get"]
    /\ sock = [s \in Sessions |-> "open"]
    /\ wire = [s \in Sessions |-> NoFrame]
    /\ grace = [s \in Sessions |-> FALSE]
    /\ cleanups = [s \in Sessions |-> 0]
    /\ recording = "frames"
    /\ motd_content = NoMotd
    /\ NoInput

NextFuzz ==
    /\ UNCHANGED <<recording, motd_content, decoded_command, command_lines, current_param, canonical_mask>>
    /\ \E s \in Sessions : ChanStep(s, FuzzCommands)

SpecFuzz == InitFuzz /\ [][NextFuzz]_vars

\* The threads run: a reader that holds the lock runs its handler, a writer
\* sends the frames of its queue, takes the sentinel, runs the cleanup and
\* closes.  threading.Lock hands the lock to a waiting writer at one of the
\* moments at which it is free.
SpecFuzzFair ==
    /\ SpecFuzz
    /\ \A s \in Sessions :
          /\ WF_vars(UNCHANGED <<recording, motd_content, decoded_command, command_lines, current_param, canonical_mask>> /\ ReaderHandle(s, FuzzCommands))
          /\ WF_vars(UNCHANGED <<recording, motd_content, decoded_command, command_lines, current_param, canonical_mask>> /\ WriterSend(s))
          /\ SF_vars(UNCHANGED <<recording, motd_content, decoded_command, command_lines, current_param, canonical_mask>> /\ WriterAcquire(s))
          /\ WF_vars(UNCHANGED <<recording, motd_content, decoded_command, command_lines, current_param, canonical_mask>> /\ WriterCleanup(s))
          /\ WF_vars(UNCHANGED <<recording, motd_content, decoded_command, command_lines, current_param, canonical_mask>> /\ WriterClose(s))

\* The command lines of the runs about channel MODE changes: the flag t, and
\* changes of two flags with both, one and none of their parameters.
ModeCommands ==
    {[verb |-> "join", args |-> <<"#foo">>],
     [verb |-> "topic", args |-> <<"#foo", "x">>],
     [verb |-> "mode", args |-> <<"#foo", <<"-", "t">> >>],
     [verb |-> "mode", args |-> <<"#foo", <<"+", "t">> >>],
     [verb |-> "mode", args |-> <<"#foo", <<"+", "o", "b">>, "bob", <<"Alice">> >>],
     [verb |-> "mode", args |-> <<"#foo", <<"+", "o", "b">> >>],
     [verb |-> "mode", args |-> <<"#foo", <<"-", "o">>, "bob">>]}

\* Runs in which no session disconnects.
NextMode ==
    /\ UNCHANGED <<recording, motd_content, decoded_command, command_lines, current_param, canonical_mask>>
    /\ \E s \in Sessions :
          \/ ReaderAcquire(s)
          \/ ReaderHandle(s, ModeCommands)
          \/ WriterSend(s)

SpecMode == InitChan /\ [][NextMode]_vars

\* The longest buffer of the runs that split one.
MaxLen == 5

\* str.endswith
endswith(string, suffix) ==
    /\ Len(suffix) <= Len(string)
    /\ SubSeq(string, Len(string) - Len(suffix) + 1, Len(string)) = suffix

\* str.split(sep): the pieces between the occurrences of sep, from the left.
RECURSIVE split(_, _)
split(string, sep) ==
    LET at(i) == SubSeq(string, i, i + Len(sep) - 1) = sep
        places == {i \in 1..(Len(string) - Len(sep) + 1) : at(i)}
    IN  IF places = {}
        THEN <<string>>
        ELSE LET i == CHOOSE x \in places : \A y \in places : x <= y
             IN  <<SubSeq(string, 1, i - 1)>>
                     \o split(SubSeq(string, i + Len(sep), Len(string)), sep)

\* server.split_on_new_line; a string is the sequence of its characters.
split_on_new_line(string) ==
    IF endswith(string, <<"\r", "\n">>)
    THEN split(string, <<"\r", "\n">>)
    ELSE split(string, <<"\n">>)

\* The buffers receive_messages returns: they end with a newline.
Buffers ==
    {b \in UNION {[1..n -> {"x", "\r", "\n"}] : n \in 1..MaxLen} : b[Len(b)] = "\n"}

\* Every session has registered and the reader of one of them has received a
\* buffer.
InitSplit ==
    /\ user = [s \in Sessions |->
                  [NewUser EXCEPT !.nick = WireNick(s), !.user_message = TRUE, !.motd_sent = TRUE]]
    /\ connected_users = [key \in {lower(WireNick(s)) : s \in Sessions} |->
                              CHOOSE s \in Sessions : lower(WireNick(s)) = key]
    /\ channels = <<>>
    /\ lock = NoThread
    /\ send_que = [s \in Sessions |-> <<>>]
    /\ rpc = [s \in Sessions |-> "recv"]
    /\ wpc = [s \in Sessions |-> "get"]
    /\ sock = [s \in Sessions |-> "open"]
    /\ wire = [s \in Sessions |-> NoFrame]
    /\ grace = [s \in Sessions |-> FALSE]
    /\ cleanups = [s \in Sessions |-> 0]
    /\ recording = "frames"
    /\ motd_content = NoMotd
    /\ decoded_command \in Buffers
    /\ command_lines = <<>>
    /\ current_param = <<>>
    /\ canonical_mask = <<>>

\* recv_loop, line 177: the lines that are dispatched are the pieces of the
\* buffer but the last.
SplitBuffer ==
    /\ decoded_command # <<>>
    /\ command_lines = <<>>
    /\ LET pieces == split_on_new_line(decoded_command)
       IN  command_lines' = SubSeq(pieces, 1, Len(pieces) - 1)
    /\ UNCHANGED <<user, connected_users, channels, lock, send_que, rpc, wpc, sock, wire,
                   grace, cleanups, recording, motd_content, decoded_command,
                   current_param, canonical_mask>>

NextSplit == SplitBuffer

SpecSplit == InitSplit /\ [][NextSplit]_vars

\* The longest parameter of a flag b in the runs that generate masks.
MaxTarget == 4

\* The parameters of a flag b: strings of a letter, "!", "@" and "*" that
\* are not empty (process_mode_b lists the bans for an empty one).
BanTargets == UNION {[1..n -> {"a", "!", "@", "*"}] : n \in 1..MaxTarget}

\* An operator has sent MODE +b with a parameter.
InitMask ==
    /\ user = [s \in Sessions |->
                  [NewUser EXCEPT !.nick = WireNick(s), !.user_message = TRUE, !.motd_sent = TRUE]]
    /\ connected_users = [key \in {lower(WireNick(s)) : s \in Sessions} |->
                              CHOOSE s \in Sessions : lower(WireNick(s)) = key]
    /\ channels = <<>>
    /\ lock = NoThread
    /\ send_que = [s \in Sessions |-> <<>>]
    /\ rpc = [s \in Sessions |-> "recv"]
    /\ wpc = [s \in Sessions |-> "get"]
    /\ sock = [s \in Sessions |-> "open"]
    /\ wire = [s \in Sessions |-> NoFrame]
    /\ grace = [s \in Sessions |-> FALSE]
    /\ cleanups = [s \in Sessions |-> 0]
    /\ recording = "frames"
    /\ motd_content = NoMotd
    /\ decoded_command = <<>>
    /\ command_lines = <<>>
    /\ current_param \in BanTargets
    /\ canonical_mask = <<>>

\* process_mode_b, line 627: target_ban_mask = generate_ban_mask(ban_target)
GenerateMask ==
    /\ current_param # <<>>
    /\ canonical_mask = <<>>
    /\ canonical_mask' = generate_ban_mask(current_param)
    /\ UNCHANGED <<user, connected_users, channels, lock, send_que, rpc, wpc, sock, wire,
                   grace, cleanups, recording, motd_content, decoded_command,
                   command_lines, current_param>>

NextMask == GenerateMask

SpecMask == InitMask /\ [][NextMask]_vars

TypeOK ==
    /\ \A s \in Sessions : rpc[s] \in {"absent", "recv", "locked", "done"}
    /\ \A s \in Sessions : wpc[s] \in {"absent", "get", "cleanup", "cleaned", "closed", "dead"}

----------------------------------------------------------------------------
\* Vocabulary of the properties.

\* The sessions the registry's user map holds.
Registered == {connected_users[key] : key \in DOMAIN connected_users}

\* The disconnect cleanup of s has not run.
Live(s) == wpc[s] \in {"get", "cleanup"}

\* The writer thread of s has ended.
WriterEnded(s) == wpc[s] \in {"closed", "dead"}

\* a is an initial part of b.
IsPrefix(a, b) == Len(a) <= Len(b) /\ SubSeq(b, 1, Len(a)) = a

\* In this step the oldest frame of the queue of s is taken out of it.
Dequeued(s) ==
    /\ send_que[s] # <<>>
    /\ IsPrefix(Tail(send_que[s]), send_que'[s])
    /\ ~IsPrefix(send_que[s], send_que'[s])

\* The frames that b holds after the frames of a.
After(a, b) == IF IsPrefix(a, b) THEN SubSeq(b, Len(a) + 1, Len(b)) ELSE <<>>

\* The frames put on the queue of s in this step.
Appended(s) == After(send_que[s], send_que'[s])

\* The frames a handler puts on the queue of s: from the queue now to the
\* queue of w.
Puts(w, s) == After(send_que[s], w.send_que[s])

\* The numerics and verbs of a sequence of frames.
Kinds(frames) == [i \in DOMAIN frames |-> frames[i].kind]

\* The session has not been welcomed: it has no nick, or has sent no USER, or
\* has not been sent the welcome.
NotWelcomed(s) == user[s].nick = "*" \/ ~user[s].user_message \/ ~user[s].motd_sent

\* The reader of s is waiting for a command and its writer serves the queue.
Serving(s) == rpc[s] = "recv" /\ sock[s] = "open" /\ wpc[s] = "get"

\* Command lines with verbs other than USER, NICK, PONG, CAP and QUIT.
GatedCommands ==
    {[verb |-> "join", args |-> <<"#foo">>], [verb |-> "part", args |-> <<"#foo">>],
     [verb |-> "privmsg", args |-> <<"#foo", "hi">>], [verb |-> "privmsg", args |-> <<"bob", "hi">>],
     [verb |-> "mode", args |-> <<"#foo", <<"+", "o">>, "bob">>],
     [verb |-> "kick", args |-> <<"#foo", "bob">>], [verb |-> "topic", args |-> <<"#foo", "t">>],
     [verb |-> "away", args |-> <<"gone">>], [verb |-> "who", args |-> <<"#foo">>],
     [verb |-> "ping", args |-> <<"x">>], [verb |-> "foo", args |-> <<>>]}

\* The numerics of the welcome sequence, in their order.
WelcomeKinds ==
    <<"001", "002", "003", "004", "005", "375">>
        \o (IF motd_content.found THEN [i \in DOMAIN motd_content.motd |-> "372"] ELSE <<"422">>)
        \o <<"376">>

\* Whether a sequence of numerics holds one of the welcome sequence.
HasWelcomeKind(kinds) ==
    \E i \in DOMAIN kinds :
        kinds[i] \in {"001", "002", "003", "004", "005", "375", "372", "422", "376"}

\* Nick set, USER accepted, no CAP negotiation in progress.
Ready(u) == u.nick # "*" /\ u.user_message /\ ~u.capneg_in_progress

----------------------------------------------------------------------------
\* C1: whenever the registry lock is free, no channel of the registry has an
\* empty member set.
C1_NoEmptyChannel ==
    lock = NoThread => \A k \in DOMAIN channels : channels[k].users # {}

\* C2: whenever the registry lock is free, the operators of every channel are
\* members of that channel.
C2_OperatorsAreMembers ==
    lock = NoThread =>
        \A k \in DOMAIN channels : channels[k].operators \subseteq channels[k].users

\* C3: whenever the registry lock is free, every member of every channel is
\* held by the registry's user map; a session whose cleanup has completed is
\* in no member set and no operator set.
C3_MembersAreRegistered ==
    lock = NoThread =>
        \A k \in DOMAIN channels :
            /\ channels[k].users \subseteq Registered
            /\ \A s \in Sessions :
                  cleanups[s] > 0 => s \notin channels[k].users \cup channels[k].operators

\* C4: a live session has a nick other than "*" exactly when the user map
\* holds that session under the case-folded nick, and no two live sessions
\* have nicks that are equal under case-folding.
C4_NickIffRegistered ==
    /\ \A s \in Sessions :
          Live(s) =>
              (user[s].nick # "*" <=>
                  /\ lower(user[s].nick) \in DOMAIN connected_users
                  /\ connected_users[lower(user[s].nick)] = s)
    /\ \A s, t \in Sessions :
          (Live(s) /\ Live(t) /\ s # t /\ user[s].nick # "*")
              => lower(user[s].nick) # lower(user[t].nick)

\* C5: no step gives a session a nick that is equal under case-folding to the
\* nick under which the user map holds a different session, and no step hands
\* the entry of a registered nick to another session.
C5_CollidingNickRejected ==
    [][/\ \A s \in Sessions :
             user'[s].nick # user[s].nick =>
                 ~ /\ lower(user'[s].nick) \in DOMAIN connected_users
                   /\ connected_users[lower(user'[s].nick)] # s
       /\ \A key \in DOMAIN connected_users :
             key \in DOMAIN connected_users' => connected_users'[key] = connected_users[key]
      ]_vars

\* C6: every step that changes the user map or the channel map is taken while
\* the registry lock is held.
C6_MutationsUnderLock ==
    [][(connected_users' # connected_users \/ channels' # channels) => lock # NoThread]_vars

\* C7: the disconnect cleanup of a session completes at most once, and when
\* the writer thread has ended it has completed exactly once, leaving the
\* session in no channel and out of the user map.
C7_CleanupExactlyOnce ==
    \A s \in Sessions :
        /\ cleanups[s] <= 1
        /\ WriterEnded(s) =>
              /\ cleanups[s] = 1
              /\ s \notin Registered
              /\ \A k \in DOMAIN channels : s \notin channels[k].users

\* C8: the socket is closed by the writer after it has processed the sentinel:
\* it is open as long as the writer has not completed the cleanup, and it is
\* closed once the writer thread has ended.
C8_SocketClosedByWriter ==
    \A s \in Sessions :
        /\ sock[s] = "closed" => wpc[s] = "closed"
        /\ WriterEnded(s) => sock[s] = "closed"


\* C9: every frame the writer takes from the queue is written to the socket
\* or makes the writer put a disconnect sentinel on the queue.
C9_FrameWrittenOrSentinel ==
    [][\A s \in Sessions :
          (wpc[s] = "get" /\ Dequeued(s) /\ Head(send_que[s]).kind # "None") =>
              \/ wire'[s] = Head(send_que[s])
              \/ /\ send_que'[s] # <<>>
                 /\ send_que'[s][Len(send_que'[s])].kind = "None"
                 /\ Len(send_que'[s]) = Len(send_que[s])
      ]_vars

\* C10: frames enter a queue only at its back and leave it only at its front,
\* and the frame the writer writes to the socket is the oldest frame of the
\* queue, which leaves the queue in the same step: the socket sees the frames
\* in the order in which they were put on the queue.
C10_FifoOrder ==
    [][\A s \in Sessions :
          /\ IsPrefix(send_que[s], send_que'[s]) \/ Dequeued(s)
          /\ (wpc[s] = "get" /\ wire'[s] # wire[s]) =>
                /\ send_que[s] # <<>>
                /\ wire'[s] = Head(send_que[s])
                /\ send_que'[s] = Tail(send_que[s])
      ]_vars

\* A PRIVMSG put by the handler of another session has been written while the
\* queue already holds a later frame put by the timer or by the session's own
\* reader.
C10_Witness ==
    \E s \in Sessions :
        /\ wire[s].kind = "PRIVMSG"
        /\ wire[s].prefix[5] # s
        /\ send_que[s] # <<>>
        /\ Head(send_que[s]).kind \in {"PING", "421"}

\* C11: in the step in which a JOIN makes a session a member of a channel, the
\* queue of the session receives the JOIN frame with its own mask, then 353,
\* then 366, in that order, and every frame put on its queue in that step
\* comes from the server or from the session itself, none from another
\* session.
C11_JoinThenNames ==
    [][\A s \in Sessions : \A k \in DOMAIN channels' :
          ( /\ s \in channels'[k].users
            /\ k \in DOMAIN channels => s \notin channels[k].users
            /\ wpc[s] = "get" ) =>
              LET app == Appended(s)
                  OfJoin(f) == f.kind \in {"JOIN", "353", "366"}
              IN  /\ Kinds(SelectSeq(app, OfJoin)) = <<"JOIN", "353", "366">>
                  /\ app[1].kind = "JOIN"
                  /\ app[1].prefix = get_user_mask(World, s)
                  /\ \A i \in DOMAIN app :
                        app[i].prefix = mantatail \/ app[i].prefix = get_user_mask(World, s)
      ]_vars

\* A session has joined a channel that another session had created: the
\* creator is a member and operator, and the queue of the joiner holds JOIN
\* with its own mask, 353 naming both, 366.
C11_Witness ==
    \E s, u \in Sessions : \E k \in DOMAIN channels :
        /\ s # u
        /\ {s, u} \subseteq channels[k].users
        /\ u \in channels[k].operators
        /\ Kinds(send_que[s]) = <<"JOIN", "353", "366">>
        /\ send_que[s][1].prefix = get_user_mask(World, s)
        /\ send_que[s][2].arg[2] = {<<"", user[s].nick>>, <<"@", user[u].nick>>}

\* C12: while a session has not been welcomed, every command other than USER,
\* NICK, PONG, CAP and QUIT is answered with one 451 and changes neither the
\* session nor the registry, and the session is a member of no channel.
C12_PreRegistrationGate ==
    \A s \in Sessions :
        NotWelcomed(s) =>
            /\ \A k \in DOMAIN channels : s \notin channels[k].users
            /\ Serving(s) =>
                  \A cmd \in GatedCommands :
                      LET w == register(World, s, cmd)
                      IN  /\ PreRegistration(s)
                          /\ Kinds(Puts(w, s)) = <<"451">>
                          /\ w = put(World, s, "451", <<user[s].nick>>, mantatail)

\* A session with nick and USER, held back by its CAP negotiation, has been
\* answered with 451.
C12_Witness ==
    \E s \in Sessions :
        /\ NotWelcomed(s)
        /\ user[s].nick # "*"
        /\ user[s].user_message
        /\ \E i \in DOMAIN send_que[s] : send_que[s][i].kind = "451"

\* C13: the welcome sequence 001 .. 005, 375, 372 lines or 422, 376 is put on
\* the queue of a session in exactly the step after which nick, USER and "no
\* CAP negotiation in progress" first hold together, in that order and as a
\* whole, and never again.
C13_WelcomeOnce ==
    [][\A s \in Sessions :
          LET welcomed == ~user[s].motd_sent /\ user'[s].motd_sent
          IN  /\ user[s].motd_sent => user'[s].motd_sent
              /\ (~user[s].motd_sent /\ Ready(user'[s])) => welcomed
              /\ welcomed =>
                    /\ Ready(user'[s])
                    /\ ~Ready(user[s])
                    /\ Kinds(Appended(s)) = WelcomeKinds
              /\ ~welcomed => ~HasWelcomeKind(Kinds(Appended(s)))
      ]_vars

\* A session has been welcomed with the lines of the MOTD and its queue holds
\* exactly the welcome sequence.
C13_Witness ==
    \E s \in Sessions :
        /\ user[s].motd_sent
        /\ motd_content.found
        /\ Kinds(send_que[s]) = WelcomeKinds

\* C14: as long as the CAP negotiation of a session that has not been
\* welcomed stays in progress, no step welcomes it or puts a welcome frame on
\* its queue; the step that ends the negotiation of a session with nick and
\* USER puts the welcome sequence on its queue.
C14_CapEndReleasesWelcome ==
    [][\A s \in Sessions :
          (user[s].capneg_in_progress /\ ~user[s].motd_sent) =>
              /\ user'[s].capneg_in_progress =>
                    /\ ~user'[s].motd_sent
                    /\ ~HasWelcomeKind(Kinds(Appended(s)))
              /\ (~user'[s].capneg_in_progress /\ user[s].nick # "*" /\ user[s].user_message) =>
                    /\ user'[s].motd_sent
                    /\ Kinds(Appended(s)) = WelcomeKinds
      ]_vars

\* A session that asked for the capabilities and has nick and USER is held
\* back: it has not been welcomed and its queue holds no welcome frame.
C14_Witness ==
    \E s \in Sessions :
        /\ user[s].capneg_in_progress
        /\ "cap-notify" \in user[s].cap_list
        /\ user[s].nick # "*"
        /\ user[s].user_message
        /\ ~user[s].motd_sent
        /\ send_que[s] = <<>>

\* C15: CAP LIST and CAP with an unrecognised subcommand leave the flag
\* capneg_in_progress of the session as it is.
C15_CapFlagOnlyByLsReqEnd ==
    \A s \in Sessions :
        Serving(s) =>
            \A args \in {<<"LIST">>, <<"FOO">>} :
                handle_cap(World, s, args).user[s].capneg_in_progress
                    = user[s].capneg_in_progress

\* The reader of s holds the registry lock and is about to call a handler.
Handling(s) == rpc[s] = "locked" /\ lock = Reader(s)

\* The user mask of s matches an entry of the ban list of the channel k.
Banned(s, k) ==
    \E i \in DOMAIN channels[k].ban_list :
        fnmatch(get_user_mask(World, s), channels[k].ban_list[i][1])

OperatorCommands(name) ==
    {[verb |-> "mode", args |-> <<name, <<m, "o">>, n>>] : m \in {"+", "-"}, n \in {"Alice", "bob", "carol"}}
    \cup {[verb |-> "mode", args |-> <<name, <<m, "b">>, mask>>] :
              m \in {"+", "-"}, mask \in {<<"bob">>, <<"Alice">>, <<"*", "!", "*", "@", "*">>}}
    \cup {[verb |-> "kick", args |-> <<name, n>>] : n \in {"Alice", "bob", "carol"}}

\* C17, as stated: MODE +o/-o, MODE +b/-b with a mask and KICK by a session
\* that is not an operator of the channel are answered with 482 and leave
\* the channel, the user map and the sessions as they are.
C17_NonOperatorGets482 ==
    \A s \in Sessions :
        Handling(s) =>
            \A k \in DOMAIN channels :
                s \notin channels[k].operators =>
                    \A cmd \in OperatorCommands(channels[k].name) :
                        LET w == call_handler_function(World, s, cmd)
                        IN  /\ w.channels = channels
                            /\ w.connected_users = connected_users
                            /\ w.user = user
                            /\ Kinds(Puts(w, s)) = <<"482">>

\* C17, amended: such a command leaves the channel, the user map and the
\* sessions as they are and puts a frame on the queue of the invoker only; the
\* answer is 482, except that MODE +o/-o and KICK that name a nick nobody has
\* are answered with 401.
C17_NonOperatorChangesNothing ==
    \A s \in Sessions :
        Handling(s) =>
            \A k \in DOMAIN channels :
                s \notin channels[k].operators =>
                    \A cmd \in OperatorCommands(channels[k].name) :
                        LET w == call_handler_function(World, s, cmd)
                            names_nobody ==
                                /\ cmd.verb = "kick" \/ cmd.args[2][2] = "o"
                                /\ find_user(World, cmd.args[Len(cmd.args)]) = "None"
                        IN  /\ w.channels = channels
                            /\ w.connected_users = connected_users
                            /\ w.user = user
                            /\ \A u \in Sessions \ {s} : Puts(w, u) = <<>>
                            /\ Kinds(Puts(w, s)) = IF names_nobody THEN <<"401">> ELSE <<"482">>

\* A member that is not an operator has been answered with 482 and the
\* operator of the channel is still a member and operator.
C17_Witness ==
    \E s, u \in Sessions : \E k \in DOMAIN channels :
        /\ s # u
        /\ {s, u} \subseteq channels[k].users
        /\ s \notin channels[k].operators
        /\ u \in channels[k].operators
        /\ send_que[s] # <<>>
        /\ send_que[s][Len(send_que[s])].kind = "482"

\* C18: when the reader of a member of a channel that is not banned from it
\* holds the lock, PRIVMSG to the channel puts exactly one PRIVMSG frame with
\* the mask of the sender on the queue of every other member, puts nothing on
\* the queue of the sender and of the sessions that are not members, and
\* leaves the registry as it is.
C18_PrivmsgFanOut ==
    \A s \in Sessions :
        (rpc[s] = "locked" /\ lock = Reader(s)) =>
            \A k \in DOMAIN channels :
                ( /\ s \in channels[k].users
                  /\ \A i \in DOMAIN channels[k].ban_list :
                        ~fnmatch(get_user_mask(World, s), channels[k].ban_list[i][1]) ) =>
                    LET w == handle_privmsg(World, s, <<channels[k].name, "hi">>)
                        frame == [kind |-> "PRIVMSG", arg |-> <<channels[k].name, "hi">>,
                                  prefix |-> get_user_mask(World, s)]
                    IN  /\ w.channels = channels
                        /\ w.connected_users = connected_users
                        /\ w.user = user
                        /\ \A u \in Sessions :
                              Puts(w, u) = IF u # s /\ u \in channels[k].users /\ wpc[u] = "get"
                                           THEN <<frame>>
                                           ELSE <<>>

\* Two members of a channel: the queue of one ends with the PRIVMSG of the
\* other, whose own queue holds no PRIVMSG.
C18_Witness ==
    \E s, u \in Sessions : \E k \in DOMAIN channels :
        /\ s # u
        /\ {s, u} \subseteq channels[k].users
        /\ send_que[u] # <<>>
        /\ send_que[u][Len(send_que[u])].kind = "PRIVMSG"
        /\ send_que[u][Len(send_que[u])].prefix = get_user_mask(World, s)
        /\ \A i \in DOMAIN send_que[s] : send_que[s][i].kind # "PRIVMSG"

\* C19: the cleanup of a disconnecting session puts exactly one QUIT frame,
\* with the mask of the session and its reason, on the queue of every other
\* session that shares at least one channel with it at that moment, and
\* nothing on the queue of a session that shares none.
C19_QuitFanOut ==
    [][\A s \in Sessions :
          (wpc[s] = "cleanup" /\ wpc'[s] # "cleanup") =>
              \A u \in Sessions \ {s} :
                  LET shares == \E k \in DOMAIN channels : {s, u} \subseteq channels[k].users
                      frame == [kind |-> "QUIT", arg |-> Head(send_que[s]).prefix,
                                prefix |-> get_user_mask(World, s)]
                  IN  /\ IsPrefix(send_que[u], send_que'[u])
                      /\ Appended(u) = IF shares /\ wpc[u] = "get" THEN <<frame>> ELSE <<>>
      ]_vars

\* The session s has been cleaned up while it shared two channels with u:
\* the queue of u holds the JOIN of s to #foo and right after it one QUIT of
\* s, and u is a member of #bar, which s created and nobody can leave.
C19_Witness ==
    \E s, u \in Sessions :
        /\ s # u
        /\ wpc[s] \in {"cleaned", "closed"}
        /\ Kinds(send_que[u]) = <<"JOIN", "QUIT">>
        /\ send_que[u][1].arg = <<"#foo">>
        /\ send_que[u][1].prefix[5] = s
        /\ send_que[u][2].prefix[5] = s
        /\ send_que[u][2].arg = <<"bye">>
        /\ {"#foo", "#bar"} \subseteq DOMAIN channels
        /\ u \in channels["#foo"].users
        /\ u \in channels["#bar"].users
        /\ u \notin channels["#bar"].operators

\* C20: a step that renames a session that has a nick puts exactly one NICK
\* frame with the old mask on the queue of every session sharing a channel
\* with it and on its own queue (once it has sent USER), and nothing on the
\* other queues; afterwards the user map holds the session under the new nick
\* and no longer under the old one.
C20_RenameFramesAndRegistry ==
    [][\A s \in Sessions :
          (user[s].nick # "*" /\ user'[s].nick # user[s].nick) =>
              LET old_nick == user[s].nick
                  new_nick == user'[s].nick
                  frame == [kind |-> "NICK", arg |-> <<new_nick>>, prefix |-> get_user_mask(World, s)]
              IN  /\ \A u \in Sessions \ {s} :
                        Appended(u) = IF u \in get_users_sharing_channel(World, s) /\ wpc[u] = "get"
                                      THEN <<frame>>
                                      ELSE <<>>
                  /\ (wpc[s] = "get" /\ user[s].user_message) => Appended(s) = <<frame>>
                  /\ lower(new_nick) \in DOMAIN connected_users'
                  /\ connected_users'[lower(new_nick)] = s
                  /\ ~ /\ lower(old_nick) \in DOMAIN connected_users'
                        /\ connected_users'[lower(old_nick)] = s
      ]_vars

\* C21: when the reader of a session that has a nick holds the lock, NICK
\* with the nick the session has now puts no frame on any queue and leaves
\* the user map, the sessions and the channels as they are, whatever the
\* letter case of that nick.
C21_SameNickIsSilent ==
    \A s \in Sessions :
        (Handling(s) /\ user[s].nick # "*") =>
            LET w == handle_nick(World, s, <<user[s].nick>>)
            IN  /\ \A u \in Sessions : Puts(w, u) = <<>>
                /\ w.user = user
                /\ w.connected_users = connected_users
                /\ w.channels = channels
                /\ ~w.raised

\* C22: when the reader of an operator of a channel holds the lock, KICK of
\* a member puts exactly one KICK frame with the mask of the operator on the
\* queue of every session that is a member before the kick (the victim
\* included, and the operator as a member), and nothing on the other queues;
\* the victim is then neither member nor operator, and the channel is gone
\* from the registry when the victim was its only member; nothing else
\* changes.
C22_KickFanOutAndRemoval ==
    \A s \in Sessions :
        Handling(s) =>
            \A k \in DOMAIN channels :
                \A t \in channels[k].users :
                    s \in channels[k].operators =>
                        LET name == channels[k].name
                            w == handle_kick(World, s, <<name, user[t].nick>>)
                            frame == [kind |-> "KICK", arg |-> <<name, user[t].nick, user[t].nick>>,
                                      prefix |-> get_user_mask(World, s)]
                        IN  /\ \A u \in Sessions :
                                  Puts(w, u) = IF u \in channels[k].users /\ wpc[u] = "get"
                                               THEN <<frame>>
                                               ELSE <<>>
                            /\ s \in channels[k].users => Puts(w, s) = <<frame>>
                            /\ Puts(w, t) = <<frame>>
                            /\ IF channels[k].users = {t}
                               THEN w.channels = del(channels, k)
                               ELSE w.channels = [channels EXCEPT ![k].users = @ \ {t},
                                                                  ![k].operators = @ \ {t}]
                            /\ w.connected_users = connected_users
                            /\ w.user = user
                            /\ ~w.raised

\* An operator that was the only member of #foo has kicked itself: its queue
\* ends with its own KICK of itself and the registry holds no #foo.
C22_Witness ==
    \E s \in Sessions :
        /\ "#foo" \notin DOMAIN channels
        /\ send_que[s] # <<>>
        /\ LET last == send_que[s][Len(send_que[s])]
           IN  /\ last.kind = "KICK"
               /\ last.arg[2] = user[s].nick
               /\ last.prefix = get_user_mask(World, s)

\* C23: when the reader of a member of a channel holds the lock, PART puts
\* exactly one PART frame with the mask of the member on the queue of every
\* member (its own included) and nothing on the other queues, and the member
\* is then neither member nor operator; when it was the only member the
\* channel is gone from the registry, and the JOIN of that name by any
\* session that comes next makes a channel with that session as its only
\* member and only operator, without bans and without topic.
C23_PartFanOutAndFreshChannel ==
    \A s \in Sessions :
        Handling(s) =>
            \A k \in DOMAIN channels :
                s \in channels[k].users =>
                    LET name == channels[k].name
                        w == handle_part(World, s, <<name>>)
                        frame == [kind |-> "PART", arg |-> <<name>>,
                                  prefix |-> get_user_mask(World, s)]
                    IN  /\ \A u \in Sessions :
                              Puts(w, u) = IF u \in channels[k].users /\ wpc[u] = "get"
                                           THEN <<frame>>
                                           ELSE <<>>
                        /\ Puts(w, s) = <<frame>>
                        /\ w.connected_users = connected_users
                        /\ w.user = user
                        /\ ~w.raised
                        /\ IF channels[k].users = {s}
                           THEN /\ w.channels = del(channels, k)
                                /\ \A u \in Sessions :
                                      rpc[u] \in {"recv", "locked"} =>
                                          handle_join(w, u, <<name>>).channels[k]
                                              = [name |-> name, users |-> {u}, operators |-> {u},
                                                 ban_list |-> <<>>, topic |-> <<>>, modes |-> {"t"}]
                           ELSE w.channels = [channels EXCEPT ![k].users = @ \ {s},
                                                              ![k].operators = @ \ {s}]

\* The session s has left #foo and the session u has joined it afterwards:
\* the queue of s ends with its own PART, which u was not sent, the queue of
\* u holds its JOIN with the names, and u is the only member and the only
\* operator of #foo.
C23_Witness ==
    \E s, u \in Sessions :
        /\ s # u
        /\ "#foo" \in DOMAIN channels
        /\ channels["#foo"].users = {u}
        /\ channels["#foo"].operators = {u}
        /\ Kinds(send_que[u]) = <<"JOIN", "353", "366">>
        /\ send_que[u][1].arg = <<"#foo">>
        /\ send_que[u][1].prefix = get_user_mask(World, u)
        /\ send_que[s] # <<>>
        /\ LET last == send_que[s][Len(send_que[s])]
           IN  /\ last.kind = "PART"
               /\ last.arg = <<"#foo">>
               /\ last.prefix = get_user_mask(World, s)

\* C24: the step that puts the idle PING on the queue of a session starts the
\* grace period with no PONG counted for it (a PONG handled before the PING
\* does not count), and the step that ends a grace period in which no PONG
\* is counted puts the disconnect sentinel with the reason "Ping timeout..."
\* on the queue of the session.
C24_PingTimeout ==
    [][\A s \in Sessions :
          /\ (~grace[s] /\ grace'[s]) => ~user'[s].pong_received
          /\ (grace[s] /\ ~grace'[s] /\ ~user[s].pong_received /\ wpc[s] = "get") =>
                Appended(s) = <<[kind |-> "None", arg |-> <<>>, prefix |-> <<"Ping timeout...">>]>>
      ]_vars

\* C25: in runs in which no session sends QUIT, no command line of a
\* registered client ends its session: the step of the reader that runs the
\* handler never leaves the read loop, whatever the command line, the one
\* with an empty MODE change included.
C25_NoCommandEndsSession ==
    [][\A s \in Sessions : rpc[s] = "locked" => rpc'[s] # "done"]_vars

C28_RepeatedModeOIsSilent ==
    \A s \in Sessions :
        Handling(s) =>
            \A k \in DOMAIN channels :
                s \in channels[k].operators =>
                    \A t \in channels[k].users :
                        \A m \in {"+", "-"} :
                            LET name == channels[k].name
                                w == handle_mode(World, s, <<name, <<m, "o">>, user[t].nick>>)
                                is_op == t \in channels[k].operators
                                frame == [kind |-> "MODE",
                                          arg |-> <<name, IF m = "+" THEN "+o" ELSE "-o", user[t].nick>>,
                                          prefix |-> get_user_mask(World, s)]
                            IN  /\ w.connected_users = connected_users
                                /\ w.user = user
                                /\ ~w.raised
                                /\ IF (m = "+") = is_op
                                   THEN /\ \A u \in Sessions : Puts(w, u) = <<>>
                                        /\ w.channels = channels
                                   ELSE /\ \A u \in Sessions :
                                              Puts(w, u) = IF u \in channels[k].users /\ wpc[u] = "get"
                                                           THEN <<frame>>
                                                           ELSE <<>>
                                        /\ w.channels =
                                              [channels EXCEPT ![k].operators =
                                                  IF m = "+" THEN @ \cup {t} ELSE @ \ {t}]

\* The operator s has made the member u an operator and its reader holds the
\* lock again: the queues of both end with the one MODE +o of s for u.
C28_Witness ==
    \E s, u \in Sessions : \E k \in DOMAIN channels :
        /\ s # u
        /\ Handling(s)
        /\ channels[k].operators = {s, u}
        /\ \A v \in {s, u} :
              /\ send_que[v] # <<>>
              /\ LET last == send_que[v][Len(send_que[v])]
                 IN  /\ last.kind = "MODE"
                     /\ last.arg = <<channels[k].name, "+o", user[u].nick>>
                     /\ last.prefix = get_user_mask(World, s)

\* C29: when the reader of an operator of a channel holds the lock, MODE -t
\* on a channel that has the mode t takes t out of the modes of the channel,
\* and MODE +t on a channel that has not puts it in; either puts one MODE
\* frame with the mask of the operator on the queue of every member; and
\* after MODE -t the TOPIC of a member that is not an operator sets the
\* topic.
C29_ModeTToggles ==
    \A s \in Sessions :
        Handling(s) =>
            \A k \in DOMAIN channels :
                s \in channels[k].operators =>
                    \A m \in {"+", "-"} :
                        ((m = "-") = ("t" \in channels[k].modes)) =>
                            LET name == channels[k].name
                                w == handle_mode(World, s, <<name, <<m, "t">> >>)
                                frame == [kind |-> "MODE", arg |-> <<name, m, "t">>,
                                          prefix |-> get_user_mask(World, s)]
                            IN  /\ ("t" \in w.channels[k].modes) = (m = "+")
                                /\ \A u \in channels[k].users :
                                      wpc[u] = "get" => Puts(w, u) = <<frame>>
                                /\ m = "-" =>
                                      \A u \in channels[k].users \ channels[k].operators :
                                          handle_topic(w, u, <<name, "x">>).channels[k].topic
                                              = <<"x", user[u].nick>>

\* C30: when the reader of an operator of a channel holds the lock, MODE +ob
\* with a nick and a mask gives the nick to o and the mask to b, in this
\* order: the member named becomes an operator, the mask is appended to the
\* ban list, and the queue of the invoker gets MODE +o and then MODE +b; and
\* MODE +ob without parameters is answered with 461 for o and nothing more,
\* b not being processed.
C30_ModeFlagsInOrder ==
    \A s \in Sessions :
        Handling(s) =>
            \A k \in DOMAIN channels :
                s \in channels[k].operators =>
                    LET name == channels[k].name
                        none == handle_mode(World, s, <<name, <<"+", "o", "b">> >>)
                    IN  /\ Kinds(Puts(none, s)) = <<"461">>
                        /\ none.channels = channels
                        /\ \A t \in channels[k].users \ channels[k].operators :
                              LET both == handle_mode(World, s,
                                              <<name, <<"+", "o", "b">>, user[t].nick, <<"carol">> >>)
                                  mask == <<"carol", "!", "*", "@", "*">>
                              IN  /\ both.channels[k].operators = channels[k].operators \cup {t}
                                  /\ ban_list_keys(both.channels[k].ban_list)
                                        = ban_list_keys(channels[k].ban_list) \cup {mask}
                                  /\ Len(Puts(both, s)) = 2
                                  /\ Puts(both, s)[1].arg = <<name, "+o", user[t].nick>>
                                  /\ Puts(both, s)[2].arg = <<name, "+", "b", mask>>

\* C31: when the reader of a member of a channel whose mask matches no entry
\* of the ban list holds the lock, JOIN of that channel puts no frame on any
\* queue and leaves the channels (members, operators, topic, ban list), the
\* user map and the sessions as they are.
C31_RepeatedJoinIsSilent ==
    \A s \in Sessions :
        Handling(s) =>
            \A k \in DOMAIN channels :
                (s \in channels[k].users /\ ~Banned(s, k)) =>
                    LET w == handle_join(World, s, <<channels[k].name>>)
                    IN  /\ \A u \in Sessions : Puts(w, u) = <<>>
                        /\ w.channels = channels
                        /\ w.connected_users = connected_users
                        /\ w.user = user
                        /\ ~w.raised

\* The reader of a member of #foo holds the lock after the frames of its
\* JOIN were sent, another session is a member too, and the ban list holds an
\* entry that does not match the member.
C31_Witness ==
    \E s, u \in Sessions :
        /\ s # u
        /\ Handling(s)
        /\ "#foo" \in DOMAIN channels
        /\ {s, u} \subseteq channels["#foo"].users
        /\ channels["#foo"].ban_list # <<>>
        /\ ~Banned(s, "#foo")
        /\ send_que[s] = <<>>

\* C32: the lines dispatched for a buffer are its newline-terminated lines,
\* one for each newline and in their order, each without its terminator:
\* without the newline, and without the carriage return before it when there
\* is one.
C32_EveryLineDispatched ==
    command_lines # <<>> =>
        LET newlines == {i \in DOMAIN decoded_command : decoded_command[i] = "\n"}
            start(i) == IF \E j \in newlines : j < i
                        THEN 1 + CHOOSE j \in newlines :
                                    j < i /\ \A x \in newlines : x < i => x <= j
                        ELSE 1
            stop(i) == IF i > start(i) /\ decoded_command[i - 1] = "\r" THEN i - 2 ELSE i - 1
        IN  /\ Len(command_lines) = Cardinality(newlines)
            /\ \A i \in newlines :
                  command_lines[Cardinality({j \in newlines : j <= i})]
                      = SubSeq(decoded_command, start(i), stop(i))

\* C33: the mask generated from a ban target is its own mask, that is
\* generating a mask from it gives the same mask again, and it is made of a
\* nick, "!", a user name, "@" and a host, none of them empty.
C33_BanMaskIdempotent ==
    canonical_mask # <<>> =>
        /\ generate_ban_mask(canonical_mask) = canonical_mask
        /\ \E i, j \in DOMAIN canonical_mask :
              /\ 1 < i
              /\ i + 1 < j
              /\ j < Len(canonical_mask)
              /\ canonical_mask[i] = "!"
              /\ canonical_mask[j] = "@"

\* C34: once the cleanup of a session has run (its writer has left the lock
\* and closes the socket, or has ended), the reader of that session never
\* holds the lock to run a handler, and the session is not a member of any
\* channel and has no key in the user map.
C34_NoDispatchAfterCleanup ==
    \A s \in Sessions :
        wpc[s] \in {"cleaned", "closed"} =>
            /\ rpc[s] # "locked"
            /\ lock # Reader(s)
            /\ \A k \in DOMAIN channels : s \notin channels[k].users
            /\ s \notin Registered

\* C35: the step in which the cleanup of a session s runs leaves s without a
\* key in the user map and outside the members of every channel, and leaves
\* every other session with the keys, the memberships and the operator
\* status it had before the step.
C35_CleanupRemovesOnlyThatSession ==
    [][\A s \in Sessions :
          (wpc[s] = "cleanup" /\ wpc'[s] # "cleanup") =>
              /\ \A key \in DOMAIN connected_users' : connected_users'[key] # s
              /\ \A k \in DOMAIN channels' : s \notin channels'[k].users
              /\ \A u \in Sessions \ {s} :
                    /\ {key \in DOMAIN connected_users' : connected_users'[key] = u}
                          = {key \in DOMAIN connected_users : connected_users[key] = u}
                    /\ {k \in DOMAIN channels' : u \in channels'[k].users}
                          = {k \in DOMAIN channels : u \in channels[k].users}
                    /\ {k \in DOMAIN channels' : u \in channels'[k].operators}
                          = {k \in DOMAIN channels : u \in channels[k].operators}
      ]_vars

\* C36: when the reader of a session holds the lock and a channel name has
\* no member (the registry does not hold it, or holds it without members), a
\* JOIN of that name that makes the session a member makes it an operator
\* of the channel too, and the channel has no topic and an empty ban list.
C36_JoinOfEmptyNameIsFresh ==
    \A s \in Sessions :
        Handling(s) =>
            \A name \in HashArgs :
                LET k == lower(name)
                    w == handle_join(World, s, <<name>>)
                IN  ( /\ k \in DOMAIN channels => channels[k].users = {}
                      /\ k \in DOMAIN w.channels
                      /\ s \in w.channels[k].users ) =>
                        /\ s \in w.channels[k].operators
                        /\ w.channels[k].topic = <<>>
                        /\ w.channels[k].ban_list = <<>>

\* C37: when the reader of an operator of a channel holds the lock and
\* MODE -b with a ban target puts a MODE frame on the queue of a member, the
\* mask generated from the target is a key of the ban list before the
\* command and is none after it; when that mask is no key of the ban list
\* (other entries may match it), nothing is put on any queue.
C37_UnbanBroadcastsRemovedKey ==
    \A s \in Sessions :
        Handling(s) =>
            \A k \in DOMAIN channels :
                s \in channels[k].operators =>
                    \A target \in {<<"bob">>, <<"bob", "!", "usr">>, <<"@", "s2">>, <<"Alice">>} :
                        LET w == handle_mode(World, s, <<channels[k].name, <<"-", "b">>, target>>)
                            mask == generate_ban_mask(target)
                            broadcast == \E u \in Sessions : Puts(w, u) # <<>>
                        IN  /\ broadcast =>
                                  /\ mask \in ban_list_keys(channels[k].ban_list)
                                  /\ mask \notin ban_list_keys(w.channels[k].ban_list)
                            /\ mask \notin ban_list_keys(channels[k].ban_list) => ~broadcast

\* The numeric error replies of errors.py.
ErrorReplies ==
    {"401", "403", "404", "409", "411", "412", "421", "431", "432", "433", "441", "442", "451",
     "461", "472", "474", "482"}

\* Command lines with an error path: missing parameters, names nobody has,
\* channels that do not exist, and the commands on #foo of members,
\* non-members, operators and banned sessions.  The lines are grouped by the
\* shape of their parameters.
ErrorCommands ==
    << OperatorCommands("#foo")
       \cup {[verb |-> "mode", args |-> <<"#bar", <<"+", "o">>, "bob">>],
             [verb |-> "mode", args |-> <<"#foo", <<"+", "b", "o">>, <<"Alice">> >>],
             [verb |-> "mode", args |-> <<"#foo", <<"+", "o", "b">>, "carol", <<"Alice">> >>]},
       {[verb |-> v, args |-> <<>>] : v \in {"join", "part", "kick", "mode", "nick", "privmsg", "topic", "pong"}}
       \cup {[verb |-> v, args |-> <<c>>] : v \in {"join", "part", "kick", "topic", "privmsg"}, c \in HashArgs}
       \cup {[verb |-> "kick", args |-> <<"#bar", "bob">>],
             [verb |-> "topic", args |-> <<"#foo", "x">>],
             [verb |-> "topic", args |-> <<"#bar", "x">>],
             [verb |-> "privmsg", args |-> <<"#foo", "hi">>],
             [verb |-> "privmsg", args |-> <<"#bar", "hi">>],
             [verb |-> "privmsg", args |-> <<"carol", "hi">>],
             [verb |-> "nick", args |-> <<"bob">>],
             [verb |-> "nick", args |-> <<"Alice">>],
             [verb |-> "nick", args |-> <<"1abc">>],
             [verb |-> "mode", args |-> <<"carol">>]},
       {[verb |-> "mode", args |-> <<"#foo", <<"+", "o">> >>],
        [verb |-> "mode", args |-> <<"#foo", <<"+", "t">> >>],
        [verb |-> "mode", args |-> <<"#foo", <<"x">> >>]} >>

\* C38: when the reader of a session holds the lock and a command puts
\* numeric error replies (4xx) on the queue of the invoker and nothing else on
\* any queue, the channels, the user map and the sessions (nicks included)
\* are the same after the handler as before.  (An operator that is no
\* member of its channel gets no MODE frame for the ban it sets.)
C38_ErrorReplyChangesNothing ==
    \A s \in Sessions :
        Handling(s) =>
            \A g \in DOMAIN ErrorCommands : \A cmd \in ErrorCommands[g] :
                LET w == call_handler_function(World, s, cmd)
                    only_errors ==
                        /\ ~w.raised
                        /\ Puts(w, s) # <<>>
                        /\ \A i \in DOMAIN Puts(w, s) : Puts(w, s)[i].kind \in ErrorReplies
                        /\ \A u \in Sessions \ {s} : Puts(w, u) = <<>>
                IN  only_errors =>
                        /\ w.channels = channels
                        /\ w.connected_users = connected_users
                        /\ w.user = user

\* C39: when the reader of a session that has a nick holds the lock, NICK
\* leaves the channels (members and operators of each) as they are; and when
\* it has renamed the session, a KICK by the session on a channel it is an
\* operator of, naming a member, is not answered with 482 and takes that
\* member out of the channel.
C39_RenameKeepsChannelsAndRights ==
    \A s \in Sessions :
        (Handling(s) /\ user[s].nick # "*") =>
            \A new_nick \in NickArgs \cup {"carol"} :
                LET w == handle_nick(World, s, <<new_nick>>)
                    renamed == w.user[s].nick # user[s].nick
                IN  /\ w.channels = channels
                    /\ renamed =>
                          \A k \in DOMAIN channels :
                              s \in channels[k].operators =>
                                  \A n \in NickArgs \cup {"carol"} :
                                      LET target_usr == find_user(w, n)
                                          w2 == handle_kick(w, s, <<channels[k].name, n>>)
                                      IN  (target_usr # "None" /\ target_usr \in channels[k].users) =>
                                              /\ \A i \in DOMAIN Puts(w2, s) : Puts(w2, s)[i].kind # "482"
                                              /\ \/ k \notin DOMAIN w2.channels
                                                 \/ target_usr \notin w2.channels[k].users

\* A session that has been renamed to carol is a member and an operator of
\* one channel and a member without operator rights of another one, next to
\* the other session.
C39_Witness ==
    \E s \in Sessions : \E k1, k2 \in DOMAIN channels :
        /\ user[s].nick = "carol"
        /\ "carol" \in DOMAIN connected_users
        /\ connected_users["carol"] = s
        /\ channels[k1].users = Sessions
        /\ channels[k1].operators = {s}
        /\ channels[k2].users = Sessions
        /\ channels[k2].operators = Sessions \ {s}

====
